---------------------------- MODULE Spec2Model ----------------------------
(***************************************************************************)
(* A model of yt_frame_compiler: the channel fetcher with its metadata     *)
(* cache (youtube.py, cache.py), the extraction scheduler of cli.main with *)
(* its worker pool, the per-video extraction (frames.py), the assembly     *)
(* order handed to compile_video and the compositor (video.py).            *)
(*                                                                         *)
(* Conventions.  Text is a sequence of one-character strings.  An          *)
(* Optional value is a sequence: <<>> is None, <<v>> is the value v.  A    *)
(* datetime is a natural number (larger is later).                         *)
(***************************************************************************)
EXTENDS Integers, Sequences, FiniteSets, TLC

(***************************************************************************)
(* Bounds of the model.                                                    *)
(***************************************************************************)
\* the largest datetime a record or a retrieval answer carries
MaxTs == 3
\* the largest host CPU count and the largest --max-workers value tried
MaxCpu == 3
\* the number of runs of the program on the same cache directory
MaxRuns == 2
\* the longest record list stored in the cache on its own
MaxStored == 2
\* the largest index of a frame image the compositor cannot load
MaxUnloadable == 2
\* the largest duration, in seconds, a capture timestamp is computed for
MaxDuration == 3
\* the distance, in tenths of a percent, between two percents tried
PercentStep == 50

(***************************************************************************)
(* Program constants.                                                      *)
(***************************************************************************)
CACHE_VERSION == 1
MIN_DURATION_SECONDS == 60
max_retries == 3
retry_delay_seconds == 3
NoCookieWorkerCeiling == 2

None == <<>>
Some(v) == <<v>>
\* Python's  a or b  on Optional values whose present values are truthy
OrElse(a, b) == IF a # None THEN a ELSE b

\* datetime.max: later than every datetime of the model
DatetimeMax == MaxTs + 1

(***************************************************************************)
(* Text.                                                                   *)
(***************************************************************************)
LowerChar(c) ==
  CASE c = "A" -> "a" [] c = "B" -> "b" [] c = "C" -> "c" [] c = "D" -> "d"
    [] c = "E" -> "e" [] c = "F" -> "f" [] c = "G" -> "g" [] c = "H" -> "h"
    [] c = "I" -> "i" [] c = "J" -> "j" [] c = "K" -> "k" [] c = "L" -> "l"
    [] c = "M" -> "m" [] c = "N" -> "n" [] c = "O" -> "o" [] c = "P" -> "p"
    [] c = "Q" -> "q" [] c = "R" -> "r" [] c = "S" -> "s" [] c = "T" -> "t"
    [] c = "U" -> "u" [] c = "V" -> "v" [] c = "W" -> "w" [] c = "X" -> "x"
    [] c = "Y" -> "y" [] c = "Z" -> "z" [] OTHER -> c

\* str.lower()
Lower(s) == [i \in 1..Len(s) |-> LowerChar(s[i])]

\* sub in s
Contains(s, sub) ==
  \E i \in 1..(Len(s) - Len(sub) + 1) : SubSeq(s, i, i + Len(sub) - 1) = sub

MsgAgeRestricted == <<"A","g","e"," ","r","e","s","t","r","i","c","t","e","d"," ","(","r","e","q","u","i","r","e","s"," ","a","u","t","h","e","n","t","i","c","a","t","i","o","n",")">>
MsgRateLimited == <<"R","a","t","e"," ","l","i","m","i","t","e","d"," ","b","y"," ","Y","o","u","T","u","b","e">>
MsgFailedDownloadPrefix == <<"F","a","i","l","e","d"," ","t","o"," ","d","o","w","n","l","o","a","d"," ","v","i","d","e","o",":"," ">>
MsgUnableLocatePrefix == <<"U","n","a","b","l","e"," ","t","o"," ","l","o","c","a","t","e"," ","d","o","w","n","l","o","a","d","e","d"," ","f","i","l","e"," ","f","o","r"," ","v","i","d","e","o",":"," ">>
MsgFfmpegFailedPrefix == <<"f","f","m","p","e","g"," ","f","a","i","l","e","d"," ","t","o"," ","e","x","t","r","a","c","t"," ","f","r","a","m","e",":"," ">>
MsgFfmpegNoFramePrefix == <<"f","f","m","p","e","g"," ","d","i","d"," ","n","o","t"," ","p","r","o","d","u","c","e"," ","f","r","a","m","e"," ","a","t"," ">>
MsgUnexpectedPrefix == <<"U","n","e","x","p","e","c","t","e","d"," ","e","r","r","o","r",":"," ">>
MsgUnknownError == <<"u","n","k","n","o","w","n"," ","e","r","r","o","r">>
SHORT_URL_SEGMENT == <<"/","s","h","o","r","t","s","/">>

(***************************************************************************)
(* Ordering.  Python's list.sort is stable; the key is the pair            *)
(* (datetime, position), compared lexicographically.                       *)
(***************************************************************************)
KeyLess(k1, k2) == k1[1] < k2[1] \/ (k1[1] = k2[1] /\ k1[2] < k2[2])

RECURSIVE InsertByKey(_, _, _)
\* x put after every element of the sorted sequence s whose key is not
\* larger than x's (key is a function from elements to pairs)
InsertByKey(s, x, key) ==
  IF s = <<>> THEN <<x>>
  ELSE IF KeyLess(key[x], key[Head(s)]) THEN <<x>> \o s
       ELSE <<Head(s)>> \o InsertByKey(Tail(s), x, key)

RECURSIVE SortByKeyFrom(_, _, _)
SortByKeyFrom(done, todo, key) ==
  IF todo = <<>> THEN done
  ELSE SortByKeyFrom(InsertByKey(done, Head(todo), key), Tail(todo), key)

Range(s) == {s[i] : i \in 1..Len(s)}

\* list.sort(key=...) : a stable sort
StableSort(s, key) == SortByKeyFrom(<<>>, s, key)

(***************************************************************************)
(* cache.py: the snapshot file metadata.json of the channel.               *)
(* The file is  [kind |-> "missing"],  [kind |-> "json", data |-> d] with  *)
(* d what json.loads gives for its text, or one of the kinds               *)
(*   "unreadable"   read_text raises OSError                               *)
(*   "undecodable"  the bytes are no UTF-8: read_text raises               *)
(*                  UnicodeDecodeError                                     *)
(*   "empty"        the file holds no character                            *)
(*   "truncated"    the file holds a proper prefix of a JSON text          *)
(*   "garbage"      any other text that is no JSON                         *)
(* A JSON value that is no object is [json |-> its type]; an object is the *)
(* record of its members.                                                  *)
(***************************************************************************)
NoFile == [kind |-> "missing"]

\* whether the JSON value v is an object (a Python dict)
IsObject(v) == "json" \notin DOMAIN v

\* the kinds of file whose text json.loads rejects with JSONDecodeError
NotJsonKinds == {"empty", "truncated", "garbage"}

\* datetime.isoformat() and datetime.fromisoformat(): the text of a datetime
isoformat(dt) == <<"iso", dt>>
\* a reader that does not know the text isoformat writes
fromisoformatUnknown(txt) == None

fromisoformat(txt) == IF Len(txt) = 2 /\ txt[1] = "iso" THEN Some(txt[2]) ELSE None

serialize_videos(videos) ==
  [version |-> CACHE_VERSION,
   videos  |-> [i \in 1..Len(videos) |->
                 [video_id    |-> videos[i].video_id,
                  title       |-> videos[i].title,
                  url         |-> videos[i].url,
                  upload_date |-> IF videos[i].upload_date # None
                                  THEN isoformat(videos[i].upload_date[1])
                                  ELSE None,
                  duration    |-> videos[i].duration,
                  position    |-> videos[i].position]]]

RECURSIVE DeserializeFrom(_, _)
DeserializeFrom(items, rest) ==
  IF rest = <<>> THEN items
  ELSE LET item == Head(rest)
           upload_raw == item.upload_date
           upload_date == IF upload_raw # None THEN fromisoformat(upload_raw) ELSE None
       IN IF item.video_id = <<>> \/ item.url = <<>>
          THEN DeserializeFrom(items, Tail(rest))
          ELSE DeserializeFrom(
                 Append(items, [video_id    |-> item.video_id,
                                title       |-> item.title,
                                url         |-> item.url,
                                upload_date |-> upload_date,
                                duration    |-> item.duration,
                                position    |-> item.position]),
                 Tail(rest))

deserialize_videos(data) == DeserializeFrom(<<>>, data.videos)

\* whether deserialize_videos(data) raises AttributeError at line 57: an
\* entry of data["videos"] that is no object has no method get
DeserializeRaises(data) == \E i \in 1..Len(data.videos) : ~IsObject(data.videos[i])

\* load_cached_metadata: raised tells whether an exception leaves the
\* function, value is the Optional[List[VideoMetadata]] it returns otherwise
load_cached_metadata(file) ==
  IF file.kind = "missing" THEN [raised |-> FALSE, value |-> None]
  ELSE IF file.kind = "undecodable" THEN [raised |-> TRUE, value |-> None]
  ELSE IF file.kind = "unreadable" \/ file.kind \in NotJsonKinds
       THEN [raised |-> FALSE, value |-> None]
  ELSE IF ~IsObject(file.data) THEN [raised |-> TRUE, value |-> None]
  ELSE IF file.data.version # CACHE_VERSION THEN [raised |-> FALSE, value |-> None]
  ELSE IF DeserializeRaises(file.data) THEN [raised |-> TRUE, value |-> None]
  ELSE [raised |-> FALSE, value |-> Some(deserialize_videos(file.data))]

\* the file after persist_metadata(videos) has returned
persist_metadata(videos) == [kind |-> "json", data |-> serialize_videos(videos)]

\* truthiness of an Optional[List]: neither None nor empty
Truthy(cached) == cached # None /\ cached[1] # <<>>

(***************************************************************************)
(* youtube.py: the channel fetcher.                                        *)
(* A raw date of an upstream entry is None, <<"str", d>> (a YYYYMMDD text  *)
(* of day d), <<"bad">> (a text strptime rejects) or <<"num", t>>.         *)
(***************************************************************************)
_parse_upload_date(raw) ==
  IF raw = None THEN None
  ELSE IF raw[1] = "num" THEN Some(raw[2])
  ELSE IF raw[1] = "str" THEN Some(raw[2])
  ELSE None

\* an upstream entry with no nested entries
Entry(id, title, url, duration, upload_date, live_status) ==
  [id |-> id, display_id |-> <<>>, title |-> title, url |-> url, webpage_url |-> <<>>,
   duration |-> duration, upload_date |-> upload_date, timestamp |-> None,
   release_timestamp |-> None, live_status |-> live_status, entries |-> <<>>]

\* an upstream playlist (a channel, or a tab of it) holding entries
Playlist(id, entries) ==
  [id |-> id, display_id |-> <<>>, title |-> <<>>, url |-> <<>>, webpage_url |-> <<>>,
   duration |-> None, upload_date |-> None, timestamp |-> None,
   release_timestamp |-> None, live_status |-> "none", entries |-> entries]

\* a falsy item of an entries list (None)
NullEntry == [null |-> TRUE]
IsNull(e) == "null" \in DOMAIN e

\* the test of line 39 without lower()
IsShortCaseSensitive(url) == Contains(url, SHORT_URL_SEGMENT)

\* line 39: the URL holds the path segment of short-form uploads
IsShort(url) == Contains(Lower(url), SHORT_URL_SEGMENT)

_entry_to_metadata(entry, position) ==
  LET url == IF entry.webpage_url # <<>> THEN entry.webpage_url ELSE entry.url
      duration == entry.duration
      raw == OrElse(entry.upload_date, OrElse(entry.timestamp, entry.release_timestamp))
      video_id == IF entry.id # <<>> THEN entry.id ELSE entry.display_id
      title == IF entry.title # <<>> THEN entry.title ELSE <<"U","n","t","i","t","l","e","d">>
  IN IF url = <<>> THEN None
     ELSE IF IsShort(url) THEN None
     ELSE IF duration # None /\ duration[1] < MIN_DURATION_SECONDS THEN None
     ELSE IF video_id = <<>> THEN None
     ELSE Some([video_id |-> video_id, title |-> title, url |-> url,
                upload_date |-> _parse_upload_date(raw),
                duration |-> duration, position |-> position])

RECURSIVE IterEntriesStack(_)
\* the entries yielded while the stack (its top first) is not empty
IterEntriesStack(stack) ==
  IF stack = <<>> THEN <<>>
  ELSE LET current == Head(stack)
           entries == current.entries
           kept == SelectSeq(entries, LAMBDA item : ~IsNull(item))
       IN IF entries # <<>>
          THEN IterEntriesStack(kept \o Tail(stack))
          ELSE <<current>> \o IterEntriesStack(Tail(stack))

_iter_entries(payload) == IterEntriesStack(<<payload>>)

RECURSIVE BacklogFrom(_, _, _)
\* the loop of lines 151-160 over the yielded entries, from index position
BacklogFrom(backlog, yielded, position) ==
  IF yielded = <<>> THEN backlog
  ELSE LET entry == Head(yielded)
           metadata == _entry_to_metadata(entry, position)
       IN IF entry.live_status \in {"is_live", "is_upcoming"}
          THEN BacklogFrom(backlog, Tail(yielded), position + 1)
          ELSE IF metadata # None
               THEN BacklogFrom(Append(backlog, metadata[1]), Tail(yielded), position + 1)
               ELSE BacklogFrom(backlog, Tail(yielded), position + 1)

\* the key of line 164 with a record without a date before every other
MetadataKeyAbsentFirst(v) ==
  <<IF v.upload_date # None THEN v.upload_date[1] ELSE 0, v.position>>

\* the key of youtube.py line 164
MetadataKey(v) == <<IF v.upload_date # None THEN v.upload_date[1] ELSE DatetimeMax, v.position>>

SortBacklog(backlog) == StableSort(backlog, [v \in Range(backlog) |-> MetadataKey(v)])

\* the end of fetch_channel_videos, lines 164-174
FetchTail(backlog, cached, file, persist_ok, queries, sleeps) ==
  LET sorted == SortBacklog(backlog)
  IN IF sorted # <<>>
     THEN [outcome |-> "return", videos |-> sorted, source |-> "fresh",
           queries |-> queries, sleeps |-> sleeps,
           writes |-> 1,
           file |-> IF persist_ok THEN persist_metadata(sorted) ELSE file]
     ELSE IF Truthy(cached)
     THEN [outcome |-> "return", videos |-> cached[1], source |-> "cache",
           queries |-> queries, sleeps |-> sleeps, writes |-> 0, file |-> file]
     ELSE [outcome |-> "raise", videos |-> <<>>, source |-> "no_eligible",
           queries |-> queries, sleeps |-> sleeps, writes |-> 0, file |-> file]

\* a back-off that does not grow with the attempt
BackOffConstant(attempt) == retry_delay_seconds

\* line 137: how long fetch sleeps after the failure of attempt
BackOff(attempt) == retry_delay_seconds * attempt

RECURSIVE FetchLoop(_, _, _, _, _, _, _, _)
\* the loop of lines 117-162 from attempt on.  script[k] is the answer of the
\* media retrieval service to the k-th call: [kind |-> "info"] (the payload),
\* [kind |-> "none"] or [kind |-> "error", cookie |-> whether the message of
\* the DownloadError holds "cookies" or "browser"]
FetchLoop(attempt, cookies_enabled, cached, file, payload, script, persist_ok, sleeps) ==
  IF attempt > max_retries
  THEN FetchTail(<<>>, cached, file, persist_ok, attempt - 1, sleeps)
  ELSE LET answer == script[attempt]
       IN IF answer.kind = "error"
          THEN IF cookies_enabled /\ answer.cookie
               THEN FetchLoop(attempt + 1, FALSE, cached, file, payload, script,
                              persist_ok, sleeps)
               ELSE IF attempt = max_retries
               THEN IF Truthy(cached)
                    THEN [outcome |-> "return", videos |-> cached[1], source |-> "cache",
                          queries |-> attempt, sleeps |-> sleeps, writes |-> 0,
                          file |-> file]
                    ELSE [outcome |-> "raise", videos |-> <<>>, source |-> "download_error",
                          queries |-> attempt, sleeps |-> sleeps, writes |-> 0,
                          file |-> file]
               ELSE FetchLoop(attempt + 1, cookies_enabled, cached, file, payload, script,
                              persist_ok, Append(sleeps, BackOff(attempt)))
          ELSE IF answer.kind = "none"
          THEN IF Truthy(cached)
               THEN [outcome |-> "return", videos |-> cached[1], source |-> "cache",
                     queries |-> attempt, sleeps |-> sleeps, writes |-> 0, file |-> file]
               ELSE [outcome |-> "raise", videos |-> <<>>, source |-> "no_info",
                     queries |-> attempt, sleeps |-> sleeps, writes |-> 0, file |-> file]
          ELSE FetchTail(BacklogFrom(<<>>, _iter_entries(payload), 0), cached, file,
                         persist_ok, attempt, sleeps)

\* the cached list fetch holds after lines 94-96
FetchCached(prefer_cache, file) ==
  IF prefer_cache THEN load_cached_metadata(file).value ELSE None

\* whether the call of load_cached_metadata at line 95, which no try block
\* encloses, raises out of fetch_channel_videos
FetchLoadRaises(prefer_cache, file) ==
  prefer_cache /\ load_cached_metadata(file).raised

\* line 97 with the test of force_refresh inverted
CacheShortCircuitInverted(cached, force_refresh) == Truthy(cached) /\ force_refresh

\* whether lines 97-98 return the cached list at once
CacheShortCircuit(cached, force_refresh) == Truthy(cached) /\ ~force_refresh

\* fetch_channel_videos: what it returns or raises, how often it called the
\* media retrieval service, how long it slept, how often it wrote the cache,
\* and the snapshot file it leaves
fetch_channel_videos(prefer_cache, force_refresh, browser, file, payload, script, persist_ok) ==
  LET cached == FetchCached(prefer_cache, file)
  IN IF FetchLoadRaises(prefer_cache, file)
     THEN [outcome |-> "crash", videos |-> <<>>, source |-> "load_error",
           queries |-> 0, sleeps |-> <<>>, writes |-> 0, file |-> file]
     ELSE IF prefer_cache /\ CacheShortCircuit(cached, force_refresh)
     THEN [outcome |-> "return", videos |-> cached[1], source |-> "cache_hit",
           queries |-> 0, sleeps |-> <<>>, writes |-> 0, file |-> file]
     ELSE FetchLoop(1, browser, cached, file, payload, script, persist_ok, <<>>)


(***************************************************************************)
(* frames.py: the extraction of one video, run in a worker process.        *)
(* env is what the task meets: env.dl[k] is the answer of the media        *)
(* retrieval service to the task's k-th call,                              *)
(*   [kind |-> "info", info |-> the info dict, media |-> whether a media   *)
(*    file is found in the download directory]                             *)
(*   [kind |-> "none"]        extract_info returned None                   *)
(*   [kind |-> "error", cookie, age, rate |-> what the message holds]      *)
(*   [kind |-> "crash"]       an exception that is no DownloadError        *)
(* and env.ffmpeg is what the frame capture tool does: "ok", "fail" (exit  *)
(* code not 0, nothing written), "fail_partial" (exit code not 0, a file   *)
(* left at the destination) or "no_output" (exit code 0, no file).         *)
(***************************************************************************)
FramePathText(video_id) == <<"f","r","a","m","e","s","/">> \o video_id \o <<".","p","n","g">>

\* a FrameResult, built with all of its three fields
FrameResult(metadata, frame_path, upload_date) ==
  [metadata |-> metadata, frame_path |-> frame_path, upload_date |-> upload_date]

\* lines 194-200: the upload date of the result
ResolveUploadDate(metadata, info) ==
  OrElse(_parse_upload_date(info.upload_date),
         OrElse(_parse_upload_date(info.release_timestamp), metadata.upload_date))

ExtractionError(reason, calls, frame, media_left) ==
  [kind |-> "error", exc |-> "FrameExtractionError", reason |-> reason,
   calls |-> calls, frame |-> frame, media_left |-> media_left]

\* lines 162-220, after the retrieval call answered with info
ExtractAfterDownload(metadata, answer, ffmpeg, calls) ==
  IF answer.kind = "none"
  THEN ExtractionError(MsgFailedDownloadPrefix \o metadata.title, calls, "absent", FALSE)
  ELSE IF ~answer.media
  THEN ExtractionError(MsgUnableLocatePrefix \o metadata.title, calls, "absent", FALSE)
  ELSE IF ffmpeg \in {"fail", "fail_partial"}
  THEN ExtractionError(MsgFfmpegFailedPrefix \o MsgUnknownError, calls,
                       IF ffmpeg = "fail_partial" THEN "partial" ELSE "absent", TRUE)
  ELSE IF ffmpeg = "no_output"
  THEN ExtractionError(MsgFfmpegNoFramePrefix \o FramePathText(metadata.video_id),
                       calls, "absent", TRUE)
  ELSE [kind |-> "result",
        value |-> FrameResult(metadata, metadata.video_id,
                              ResolveUploadDate(metadata, answer.info)),
        calls |-> calls, frame |-> "frame", media_left |-> FALSE]

\* line 151 with a retry after every DownloadError
DropsCookiesAlways(cookies_enabled, answer) == TRUE

\* line 151: the call was made with the browser cookies and the message of
\* its DownloadError holds "cookies" or "browser"
DropsCookies(cookies_enabled, answer) == cookies_enabled /\ answer.cookie

\* line 141: the number of retrieval calls the loop allows
ExtractAttempts(browser) == IF browser THEN 2 ELSE 1

RECURSIVE ExtractLoop(_, _, _, _, _)
\* lines 142-160: the retrieval calls, from the attempt-th on
ExtractLoop(metadata, env, attempt, attempts, cookies_enabled) ==
  IF attempt > attempts
  THEN \* the loop ended without info: line 162
       ExtractionError(MsgFailedDownloadPrefix \o metadata.title, attempts, "absent", FALSE)
  ELSE LET answer == env.dl[attempt]
       IN IF answer.kind = "crash"
          THEN [kind |-> "error", exc |-> "Exception", reason |-> MsgUnknownError,
                calls |-> attempt, frame |-> "absent", media_left |-> FALSE]
          ELSE IF answer.kind = "error"
          THEN IF DropsCookies(cookies_enabled, answer)
               THEN ExtractLoop(metadata, env, attempt + 1, attempts, FALSE)
               ELSE IF answer.age
               THEN ExtractionError(MsgAgeRestricted, attempt, "absent", FALSE)
               ELSE IF answer.rate
               THEN ExtractionError(MsgRateLimited, attempt, "absent", FALSE)
               ELSE ExtractionError(MsgFailedDownloadPrefix \o metadata.title, attempt,
                                    "absent", FALSE)
          ELSE ExtractAfterDownload(metadata, answer, env.ffmpeg, attempt)

\* extract_first_frame: the FrameResult it returns or the exception it
\* raises, the number of retrieval calls it made, what it left at the frame
\* path and whether it left the retrieved media behind
extract_first_frame(metadata, browser, env) ==
  ExtractLoop(metadata, env, 1, ExtractAttempts(browser), browser)

(***************************************************************************)
(* frames.py, _calculate_timestamp.  A percent is a number of tenths of a  *)
(* percent and a timestamp a number of milliseconds, so that               *)
(* duration_seconds * (bounded / 100.0) seconds is duration_seconds *      *)
(* bounded milliseconds, exactly; a duration is a whole number of seconds  *)
(* or None.  Two percents of this grain that math.isclose takes for equal  *)
(* are equal.                                                              *)
(***************************************************************************)
Max(a, b) == IF a >= b THEN a ELSE b
Min(a, b) == IF a <= b THEN a ELSE b

\* 100.0 percent, in tenths of a percent
FullPercent == 1000
\* 0.1 seconds, in milliseconds
EndMargin == 100
\* one second, in milliseconds
Second == 1000

_calculate_timestamp(duration_seconds, percent) ==
  LET bounded == Max(0, Min(percent, FullPercent))
  IN IF duration_seconds = None \/ duration_seconds[1] = 0 \/ duration_seconds[1] <= 0
     THEN 0
     ELSE IF bounded = FullPercent
     THEN Max(duration_seconds[1] * Second - EndMargin, 0)
     ELSE duration_seconds[1] * bounded

(***************************************************************************)
(* video.py: the compositor.  The file at the output path is               *)
(*   [kind |-> "absent"]  or                                               *)
(*   [kind |-> "video", frames |-> how many frames it holds,               *)
(*    complete |-> whether it holds every frame compile_video was given]   *)
(* env is what compile_video meets: env.writer tells whether the video     *)
(* writer opens ("ok"), does not open and creates no file ("fail") or does *)
(* not open and leaves a file without frames ("fail_created"); the first   *)
(* frame image cv2.imread cannot load is the one of index env.unloadable,  *)
(* if the list is that long.                                               *)
(***************************************************************************)
compile_video(frames, frame_duration_seconds, env, output) ==
  IF frames = <<>> THEN [raised |-> TRUE, output |-> output]
  ELSE IF frame_duration_seconds <= 0 THEN [raised |-> TRUE, output |-> output]
  ELSE IF env.writer = "fail" THEN [raised |-> TRUE, output |-> output]
  ELSE IF env.writer = "fail_created"
       THEN [raised |-> TRUE,
             output |-> [kind |-> "video", frames |-> 0, complete |-> FALSE]]
  ELSE IF env.unloadable \in 1..Len(frames)
       THEN [raised |-> TRUE,
             output |-> [kind |-> "video", frames |-> env.unloadable - 1,
                         complete |-> FALSE]]
  ELSE [raised |-> FALSE,
        output |-> [kind |-> "video", frames |-> Len(frames), complete |-> TRUE]]

\* what the compositor can meet
CompileEnvs ==
  [writer : {"ok", "fail", "fail_created"}, unloadable : 0..MaxUnloadable]

\* the values of --frame-duration, in tenths of a second
FrameDurations == {0, 2}

(***************************************************************************)
(* cli.py: main.                                                           *)
(***************************************************************************)
CatAgeRestricted == "Age-restricted"
CatUnavailable == "Unavailable"
CatBlocked == "Blocked"
CatOther == "Other"
Categories == {CatAgeRestricted, CatUnavailable, CatBlocked, CatOther}

categorize_failure(reason) ==
  LET lowered == Lower(reason)
  IN IF Contains(lowered, <<"a","g","e">>) THEN CatAgeRestricted
     ELSE IF Contains(lowered, <<"u","n","a","v","a","i","l","a","b","l","e">>)
             \/ Contains(lowered, <<"p","r","i","v","a","t","e">>) THEN CatUnavailable
     ELSE IF Contains(lowered, <<"b","l","o","c","k","e","d">>) THEN CatBlocked
     ELSE CatOther

\* lines 215-220 without the ceiling of line 219
WorkerLimitNoCeiling(browser, arg_max_workers, cpu_count) ==
  <<IF arg_max_workers # None /\ arg_max_workers[1] # 0 THEN arg_max_workers[1]
    ELSE IF cpu_count # 0 THEN cpu_count ELSE 1,
    ~browser /\ arg_max_workers = None>>

\* lines 215-220: (max_workers, auto_limited_workers)
WorkerLimit(browser, arg_max_workers, cpu_count) ==
  LET cpu_default_workers == IF cpu_count # 0 THEN cpu_count ELSE 1
      max_workers == IF arg_max_workers # None /\ arg_max_workers[1] # 0
                     THEN arg_max_workers[1] ELSE cpu_default_workers
  IN IF ~browser /\ arg_max_workers = None
     THEN <<IF max_workers < NoCookieWorkerCeiling THEN max_workers
            ELSE NoCookieWorkerCeiling, TRUE>>
     ELSE <<max_workers, FALSE>>

\* line 331 with max for min
WorkerCountMax(max_workers, total_pending) ==
  IF max_workers > total_pending THEN max_workers ELSE total_pending

\* line 331
WorkerCount(max_workers, total_pending) ==
  LET m == IF max_workers < total_pending THEN max_workers ELSE total_pending
  IN IF m > 1 THEN m ELSE 1

\* a dict keeps its keys in insertion order: a sequence of <<key, value>>
DictKeys(d) == {d[i][1] : i \in 1..Len(d)}
DictGet(d, k) == CHOOSE i \in 1..Len(d) : d[i][1] = k
DictValue(d, k) == d[DictGet(d, k)][2]
DictSet(d, k, v) ==
  IF k \in DictKeys(d) THEN [d EXCEPT ![DictGet(d, k)] = <<k, v>>]
  ELSE Append(d, <<k, v>>)

\* line 308
PendingVideos(videos, processed_map) ==
  SelectSeq(videos, LAMBDA video : video.video_id \notin DictKeys(processed_map))

\* the key of lines 384-387
ProcessedKey(item) ==
  <<OrElse(item.upload_date, OrElse(item.metadata.upload_date, Some(DatetimeMax)))[1],
    item.metadata.position>>

\* line 382
ProcessedList(videos, processed_map) ==
  LET have == SelectSeq(videos, LAMBDA video : video.video_id \in DictKeys(processed_map))
  IN [i \in 1..Len(have) |-> DictValue(processed_map, have[i].video_id)]

\* lines 382-388 without the sort, the results taken as the dict holds them
AssembleInsertionOrder(videos, processed_map) ==
  [i \in 1..Len(processed_map) |-> processed_map[i][2]]

\* lines 382-388 with the date as the whole key
AssembleByDateOnly(videos, processed_map) ==
  LET processed == [i \in 1..Len(processed_map) |->
                      processed_map[Len(processed_map) + 1 - i][2]]
  IN StableSort(processed, [item \in Range(processed) |-> <<ProcessedKey(item)[1], 0>>])

\* lines 382-388: the frames in the order handed to compile_video
AssembleProcessed(videos, processed_map) ==
  LET processed == ProcessedList(videos, processed_map)
  IN StableSort(processed, [item \in Range(processed) |-> ProcessedKey(item)])


\* lines 286-294: the resume scan.  FrameResult has three required fields
\* (models.py) and line 291 passes two of them: the call raises TypeError at
\* the first record whose frame exists, outside every try block of main.
ResumeScan(videos, frames) ==
  LET hits == {i \in 1..Len(videos) : frames[videos[i].video_id] # "absent"}
  IN IF hits = {}
     THEN [raised |-> FALSE, processed_map |-> <<>>]
     ELSE [raised |-> TRUE, processed_map |-> <<>>]

(***************************************************************************)
(* The channels of the model: what the media retrieval service answers for *)
(* the channel URL (payload) and for each video of it (info).              *)
(***************************************************************************)
IdA == <<"a">>
IdB == <<"b">>
IdC == <<"c">>
IdS == <<"s">>
Ids == {IdA, IdB, IdC, IdS}

UrlOf(id) == <<"/","w","/">> \o id
ShortsUrlOf(id) == <<"/","S","h","o","r","t","s","/">> \o id
Info(upload_date, release_timestamp) ==
  [upload_date |-> upload_date, release_timestamp |-> release_timestamp, duration |-> None]
NoInfo == Info(None, None)

\* three uploads dated T1, absent, T3 in enumeration order
Channel1 ==
  [payload |-> Playlist(<<"c","h">>,
      <<Entry(IdA, <<"V","l","o","g">>, UrlOf(IdA), Some(90), <<"str", 1>>, "none"),
        Entry(IdB, <<"P","a","g","e">>, UrlOf(IdB), None, None, "none"),
        Entry(IdC, <<"C","a","t">>, UrlOf(IdC), Some(60), <<"str", 3>>, "none")>>),
   info |-> [id \in Ids |-> CASE id = IdA -> Info(<<"str", 1>>, None)
                              [] id = IdC -> Info(<<"str", 3>>, None)
                              [] OTHER -> NoInfo]]

\* a flat enumeration without dates, a short between two uploads; the
\* retrieval of each video tells its date
Channel2 ==
  [payload |-> Playlist(<<"c","h">>,
      <<Entry(IdA, <<"V","l","o","g">>, UrlOf(IdA), Some(90), None, "none"),
        Entry(IdS, <<"S">>, ShortsUrlOf(IdS), Some(30), None, "none"),
        Entry(IdB, <<"C","a","t">>, UrlOf(IdB), Some(61), None, "none")>>),
   info |-> [id \in Ids |-> CASE id = IdA -> Info(<<"str", 2>>, None)
                              [] id = IdB -> Info(None, <<"num", 1>>)
                              [] OTHER -> NoInfo]]

\* tabs of a channel: two uploads of the same day and a live broadcast
Channel3 ==
  [payload |-> Playlist(<<"c","h">>,
      <<Playlist(<<"t","1">>,
          <<Entry(IdA, <<"V","l","o","g">>, UrlOf(IdA), Some(90), <<"str", 2>>, "none"),
            NullEntry,
            Entry(IdB, <<"C","a","t">>, UrlOf(IdB), Some(75), <<"str", 2>>, "none")>>),
        Playlist(<<"t","2">>,
          <<Entry(IdC, <<"L","i","v","e">>, UrlOf(IdC), None, None, "is_live")>>)>>),
   info |-> [id \in Ids |-> CASE id = IdA -> Info(<<"str", 2>>, None)
                              [] id = IdB -> Info(<<"str", 2>>, None)
                              [] OTHER -> NoInfo]]

\* two uploads whose date neither the enumeration nor the retrieval tells
Channel4 ==
  [payload |-> Playlist(<<"c","h">>,
      <<Entry(IdA, <<"V","l","o","g">>, UrlOf(IdA), Some(90), None, "none"),
        Entry(IdB, <<"C","a","t">>, UrlOf(IdB), None, <<"bad">>, "none")>>),
   info |-> [id \in Ids |-> NoInfo]]

\* a channel none of whose entries is eligible: a short, an upload of less
\* than the minimum duration, an entry without id, an entry without URL and
\* an upcoming broadcast
Channel5 ==
  [payload |-> Playlist(<<"c","h">>,
      <<Entry(IdA, <<"V","l","o","g">>, ShortsUrlOf(IdA), Some(90), <<"str", 1>>, "none"),
        Entry(IdB, <<"C","a","t">>, UrlOf(IdB), Some(MIN_DURATION_SECONDS - 1), None, "none"),
        Entry(<<>>, <<"P","a","g","e">>, UrlOf(IdC), Some(90), None, "none"),
        Entry(IdC, <<"P","a","g","e">>, <<>>, Some(90), None, "none"),
        Entry(IdS, <<"S">>, UrlOf(IdS), None, None, "is_upcoming")>>),
   info |-> [id \in Ids |-> NoInfo]]

\* the enumeration of a channel as upstream gives it: from the newest upload
\* to the oldest
Channel6 ==
  [payload |-> Playlist(<<"c","h">>,
      <<Entry(IdA, <<"V","l","o","g">>, UrlOf(IdA), Some(90), <<"str", 3>>, "none"),
        Entry(IdB, <<"C","a","t">>, UrlOf(IdB), Some(75), <<"num", 2>>, "none")>>),
   info |-> [id \in Ids |-> NoInfo]]

Channels == {Channel1, Channel2, Channel3, Channel4, Channel5, Channel6}

\* a channel whose enumeration yields the same upload twice, once in each of
\* two tabs, and another upload of the same day between them
Channel7 ==
  [payload |-> Playlist(<<"c","h">>,
      <<Playlist(<<"t","1">>,
          <<Entry(IdA, <<"V","l","o","g">>, UrlOf(IdA), Some(90), <<"str", 2>>, "none"),
            Entry(IdB, <<"C","a","t">>, UrlOf(IdB), Some(75), <<"str", 2>>, "none")>>),
        Playlist(<<"t","2">>,
          <<Entry(IdA, <<"V","l","o","g">>, UrlOf(IdA), Some(90), <<"str", 2>>, "none")>>)>>),
   info |-> [id \in Ids |-> Info(<<"str", 2>>, None)]]

\* the answers of the media retrieval service to the (at most max_retries)
\* calls of one fetch
FetchAnswers ==
  {[kind |-> "info", cookie |-> FALSE], [kind |-> "none", cookie |-> FALSE],
   [kind |-> "error", cookie |-> FALSE], [kind |-> "error", cookie |-> TRUE]}
FetchScripts == [1..max_retries -> FetchAnswers]

DlInfo(info) == [kind |-> "info", info |-> info, media |-> TRUE,
                 cookie |-> FALSE, age |-> FALSE, rate |-> FALSE]
DlError(cookie, age, rate) == [kind |-> "error", info |-> NoInfo, media |-> FALSE,
                               cookie |-> cookie, age |-> age, rate |-> rate]
DlCrash == [kind |-> "crash", info |-> NoInfo, media |-> FALSE,
            cookie |-> FALSE, age |-> FALSE, rate |-> FALSE]
\* what an extraction task of the scheduler may meet
TaskEnvs(info) ==
  {[dl |-> <<DlInfo(info), DlInfo(info)>>, ffmpeg |-> "ok"],
   [dl |-> <<DlError(TRUE, FALSE, FALSE), DlInfo(info)>>, ffmpeg |-> "ok"],
   [dl |-> <<DlError(FALSE, FALSE, FALSE), DlInfo(info)>>, ffmpeg |-> "ok"],
   [dl |-> <<DlCrash, DlCrash>>, ffmpeg |-> "ok"],
   [dl |-> <<DlInfo(info), DlInfo(info)>>, ffmpeg |-> "fail_partial"]}

(***************************************************************************)
(* The state.                                                              *)
(***************************************************************************)
VARIABLES
  channel,              \* what upstream holds for the channel URL
  cache_file,           \* <cache>/<key>/metadata.json
  frame_dir,            \* <cache>/<key>/frames: video id -> "absent", "frame", "partial"
  run,                  \* the number of the run of the program
  pc,                   \* where main is
  args,                 \* the parsed arguments of the run
  max_workers,          \* line 216-219
  auto_limited_workers, \* line 217-220
  fetch_ret,            \* how fetch_channel_videos ended
  videos,               \* line 246-262
  reused,               \* the ids whose frame existed at the resume scan
  processed_map,        \* line 282
  skipped_details,      \* line 283
  failure_breakdown,    \* line 284
  pending_videos,       \* line 308
  worker_count,         \* line 331
  initial_completed,    \* line 310
  futures,              \* line 339: per submitted task, its state and outcome
  progress,             \* the progress events, lines 376-377
  handed,               \* the frames compile_video was called with
  output_file,          \* the video at the output path
  timestamps,           \* the last calls of _calculate_timestamp
  task,                 \* an extraction task followed step by step
  exit_code,            \* what main returned: None while it runs
  history               \* one summary per finished run

vars == <<channel, cache_file, frame_dir, run, pc, args, max_workers,
          auto_limited_workers, fetch_ret, videos, reused, processed_map,
          skipped_details, failure_breakdown, pending_videos, worker_count,
          initial_completed, futures, progress, handed, output_file, timestamps, task, exit_code, history>>

disk == <<cache_file, frame_dir>>
NoFetch == [outcome |-> "none"]
NoArgs == [resume |-> FALSE, browser |-> FALSE, max_workers |-> None, limit |-> None]
EmptyBreakdown == [c \in Categories |-> 0]
NoFrames == [id \in Ids |-> "absent"]
NoOutput == [kind |-> "absent"]
NoTask == [step |-> "idle"]

\* the values --resume, --browser, --max-workers and --limit take
ArgSets ==
  [resume : BOOLEAN, browser : BOOLEAN,
   max_workers : {None} \cup {Some(n) : n \in 0..MaxCpu},
   limit : {None, Some(0), Some(2)}]

\* the state of main's locals when a run starts
RunStart ==
  /\ pc = "start"
  /\ args = NoArgs
  /\ max_workers = 0
  /\ auto_limited_workers = FALSE
  /\ fetch_ret = NoFetch
  /\ videos = <<>>
  /\ reused = {}
  /\ processed_map = <<>>
  /\ skipped_details = <<>>
  /\ failure_breakdown = EmptyBreakdown
  /\ pending_videos = <<>>
  /\ worker_count = 0
  /\ initial_completed = 0
  /\ futures = <<>>
  /\ progress = <<>>
  /\ handed = None
  /\ exit_code = None

\* the locals of main are those of a run that starts
ResetLocals ==
  /\ pc' = "start"
  /\ args' = NoArgs
  /\ max_workers' = 0
  /\ auto_limited_workers' = FALSE
  /\ fetch_ret' = NoFetch
  /\ videos' = <<>>
  /\ reused' = {}
  /\ processed_map' = <<>>
  /\ skipped_details' = <<>>
  /\ failure_breakdown' = EmptyBreakdown
  /\ pending_videos' = <<>>
  /\ worker_count' = 0
  /\ initial_completed' = 0
  /\ futures' = <<>>
  /\ progress' = <<>>
  /\ handed' = None
  /\ exit_code' = None

\* the state when the program starts on one of the channels chs, with a new
\* cache directory
InitOn(chs) ==
  /\ channel \in chs
  /\ cache_file = NoFile
  /\ frame_dir = NoFrames
  /\ output_file = NoOutput
  /\ timestamps = <<>>
  /\ task = NoTask
  /\ run = 1
  /\ history = <<>>
  /\ RunStart

Init == InitOn(Channels)


(***************************************************************************)
(* The actions of main.                                                    *)
(***************************************************************************)
Exit(code) == pc' = "exit" /\ exit_code' = Some(code)

\* lines 201-220: the arguments are parsed and checked, the worker limit set
Main_Setup(a, cpu_count) ==
  /\ pc = "start"
  /\ args' = a
  /\ IF a.limit # None /\ a.limit[1] <= 0
     THEN Exit(1) /\ UNCHANGED <<max_workers, auto_limited_workers>>
     ELSE IF a.max_workers # None /\ a.max_workers[1] <= 0
     THEN Exit(1) /\ UNCHANGED <<max_workers, auto_limited_workers>>
     ELSE /\ max_workers' = WorkerLimit(a.browser, a.max_workers, cpu_count)[1]
          /\ auto_limited_workers' = WorkerLimit(a.browser, a.max_workers, cpu_count)[2]
          /\ pc' = "fetch"
          /\ UNCHANGED exit_code
  /\ UNCHANGED <<channel, disk, run, fetch_ret, videos, reused, processed_map,
                 skipped_details, failure_breakdown, pending_videos, worker_count, initial_completed,
                 futures, progress, handed, output_file, timestamps, task, history>>

\* line 262
ApplyLimit(vs, limit) ==
  IF limit # None /\ limit[1] < Len(vs) THEN SubSeq(vs, 1, limit[1]) ELSE vs

\* lines 243-269: the channel is fetched
Main_Fetch(script, persist_ok) ==
  /\ pc = "fetch"
  /\ \E ret \in {fetch_channel_videos(TRUE, FALSE, args.browser, cache_file,
                                        channel.payload, script, persist_ok)} :
     LET found == ApplyLimit(ret.videos, args.limit)
     IN /\ fetch_ret' = [outcome |-> ret.outcome, source |-> ret.source]
        /\ cache_file' = ret.file
        /\ IF ret.outcome = "crash"
           THEN pc' = "crashed" /\ UNCHANGED <<videos, exit_code>>
           ELSE IF ret.outcome = "raise"
           THEN Exit(1) /\ UNCHANGED videos
           ELSE IF found = <<>>
           THEN Exit(2) /\ UNCHANGED videos
           ELSE videos' = found /\ pc' = "prepare" /\ UNCHANGED exit_code
  /\ UNCHANGED <<channel, frame_dir, run, args, max_workers, auto_limited_workers,
                 reused, processed_map, skipped_details, failure_breakdown,
                 pending_videos, worker_count, initial_completed, futures, progress, handed, output_file, timestamps, task, history>>

\* lines 271-294: the frame directory is emptied, or scanned when resuming
Main_Prepare ==
  /\ pc = "prepare"
  /\ IF ~args.resume
     THEN /\ frame_dir' = NoFrames
          /\ pc' = "dispatch"
          /\ UNCHANGED <<reused, processed_map>>
     ELSE LET scan == ResumeScan(videos, frame_dir)
          IN /\ reused' = {videos[i].video_id : i \in
                             {j \in 1..Len(videos) : frame_dir[videos[j].video_id] # "absent"}}
             /\ processed_map' = scan.processed_map
             /\ pc' = IF scan.raised THEN "crashed" ELSE "dispatch"
             /\ UNCHANGED frame_dir
  /\ UNCHANGED <<channel, cache_file, run, args, max_workers, auto_limited_workers,
                 fetch_ret, videos, skipped_details, failure_breakdown, pending_videos,
                 worker_count, initial_completed, futures, progress, handed, output_file, timestamps, task, exit_code, history>>

NoOutcome == [kind |-> "none"]

\* lines 296-355: one task per pending video is submitted to the pool
Main_Dispatch ==
  /\ pc = "dispatch"
  /\ LET pending == PendingVideos(videos, processed_map)
         total_pending == Len(pending)
     IN /\ pending_videos' = pending
        /\ initial_completed' = Len(processed_map)
        /\ IF total_pending # 0
           THEN /\ worker_count' = WorkerCount(max_workers, total_pending)
                /\ futures' = [i \in 1..total_pending |->
                                 [state |-> "queued", outcome |-> NoOutcome]]
                /\ pc' = "pool"
           ELSE /\ pc' = "assemble"
                /\ UNCHANGED <<worker_count, futures>>
  /\ UNCHANGED <<channel, disk, run, args, max_workers, auto_limited_workers, fetch_ret,
                 videos, reused, processed_map, skipped_details, failure_breakdown,
                 progress, handed, output_file, timestamps, task, exit_code, history>>

Running == {i \in 1..Len(futures) : futures[i].state = "running"}
Queued == {i \in 1..Len(futures) : futures[i].state = "queued"}

\* ProcessPoolExecutor(max_workers=worker_count): a free worker process takes
\* the next task of the queue
Pool_Start ==
  /\ pc = "pool"
  /\ Queued # {}
  /\ Cardinality(Running) < worker_count
  /\ LET i == CHOOSE j \in Queued : \A k \in Queued : j <= k
     IN futures' = [futures EXCEPT ![i].state = "running"]
  /\ UNCHANGED <<channel, disk, run, pc, args, max_workers, auto_limited_workers,
                 fetch_ret, videos, reused, processed_map, skipped_details,
                 failure_breakdown, pending_videos, worker_count, initial_completed, progress, handed, output_file, timestamps, task,
                 exit_code, history>>

\* what the future of a task holds: the result, or the exception raised
FutureOutcome(out) ==
  IF out.kind = "result" THEN [kind |-> "result", value |-> out.value]
  ELSE [kind |-> "error", exc |-> out.exc, reason |-> out.reason]

\* a worker process runs extract_first_frame on its task to the end
Pool_Finish(i, env) ==
  /\ pc = "pool"
  /\ i \in Running
  /\ \E out \in {extract_first_frame(pending_videos[i], args.browser, env)} :
     LET video == pending_videos[i]
     IN /\ futures' = [futures EXCEPT ![i] = [state |-> "finished",
                                               outcome |-> FutureOutcome(out)]]
        /\ frame_dir' = IF out.frame = "absent" THEN frame_dir
                        ELSE [frame_dir EXCEPT ![video.video_id] = out.frame]
  /\ UNCHANGED <<channel, cache_file, run, pc, args, max_workers, auto_limited_workers,
                 fetch_ret, videos, reused, processed_map, skipped_details,
                 failure_breakdown, pending_videos, worker_count, initial_completed, progress, handed, output_file, timestamps, task,
                 exit_code, history>>

\* lines 362 and 368: the reason of a failed task
FailureReason(outcome) ==
  IF outcome.exc = "FrameExtractionError" THEN outcome.reason
  ELSE MsgUnexpectedPrefix \o outcome.reason

\* lines 364 and 370 with a wrong right-hand side: the count is set, not raised
TallyFailureSetsOne(breakdown, category) == [breakdown EXCEPT ![category] = 1]

\* lines 364 and 370: failure_breakdown[category] += 1
TallyFailure(breakdown, category) ==
  [breakdown EXCEPT ![category] = breakdown[category] + 1]

\* line 376 with an update that does not advance the count
ProgressUpdateStale(events, initial, title, errors) ==
  Append(events, [n |-> initial + Len(events), title |-> title, errors |-> errors])

\* lines 326, 376-377: progress.update(1) raises the count of the bar, which
\* started at initial, by one, and the postfix shows the title and the errors
ProgressUpdate(events, initial, title, errors) ==
  Append(events, [n |-> initial + Len(events) + 1, title |-> title, errors |-> errors])

\* lines 357-377: one round of the as_completed loop
Main_Collect(i) ==
  /\ pc = "pool"
  /\ i \in 1..Len(futures)
  /\ futures[i].state = "finished"
  /\ LET video == pending_videos[i]
         outcome == futures[i].outcome
         failed == outcome.kind = "error"
         reason == FailureReason(outcome)
         category == categorize_failure(reason)
         skipped == IF failed
                    THEN Append(skipped_details, <<video.title, reason, category>>)
                    ELSE skipped_details
     IN /\ futures' = [futures EXCEPT ![i].state = "collected"]
        /\ skipped_details' = skipped
        /\ failure_breakdown' =
             IF failed
             THEN TallyFailure(failure_breakdown, category)
             ELSE failure_breakdown
        /\ processed_map' = IF failed THEN processed_map
                            ELSE DictSet(processed_map, video.video_id, outcome.value)
        /\ progress' = ProgressUpdate(progress, initial_completed, video.title,
                                      Len(skipped))
  /\ UNCHANGED <<channel, disk, run, pc, args, max_workers, auto_limited_workers,
                 fetch_ret, videos, reused, pending_videos, worker_count, initial_completed, handed, output_file, timestamps, task,
                 exit_code, history>>

AllCollected == \A i \in 1..Len(futures) : futures[i].state = "collected"

\* lines 382-397: the frames are ordered and compile_video is called
Main_Assemble(frame_duration, env) ==
  /\ \/ pc = "assemble"
     \/ pc = "pool" /\ AllCollected
  /\ \E processed \in {AssembleProcessed(videos, processed_map)} :
        IF processed = <<>>
        THEN Exit(2) /\ UNCHANGED <<handed, output_file>>
        ELSE \E ret \in {compile_video(processed, frame_duration, env, output_file)} :
               /\ handed' = Some(processed)
               /\ output_file' = ret.output
               /\ Exit(IF ret.raised THEN 1 ELSE 0)
  /\ UNCHANGED <<timestamps, task>>
  /\ UNCHANGED <<channel, disk, run, args, max_workers, auto_limited_workers, fetch_ret,
                 videos, reused, processed_map, skipped_details, failure_breakdown,
                 pending_videos, worker_count, initial_completed, futures, progress, history>>

IdsOf(vs) == [i \in 1..Len(vs) |-> vs[i].video_id]

RunSummary ==
  [resume |-> args.resume, videos |-> IdsOf(videos), reused |-> reused,
   submitted |-> IdsOf(pending_videos),
   handed |-> IF handed = None THEN None
              ELSE Some([i \in 1..Len(handed[1]) |-> handed[1][i].frame_path]),
   pc |-> pc, exit_code |-> exit_code]

\* the program is started again on the same channel and cache directory,
\* with an output path at which no file is
Rerun ==
  /\ pc \in {"exit", "crashed"}
  /\ run < MaxRuns
  /\ run' = run + 1
  /\ history' = Append(history, RunSummary)
  /\ ResetLocals
  /\ output_file' = NoOutput
  /\ UNCHANGED <<channel, disk, timestamps, task>>

\* the steps of the worker pool and of main after the arguments are parsed
RunSteps ==
  \/ \E script \in FetchScripts, persist_ok \in BOOLEAN : Main_Fetch(script, persist_ok)
  \/ Main_Prepare
  \/ Main_Dispatch
  \/ Pool_Start
  \/ \E i \in 1..Len(futures) :
       \E env \in TaskEnvs(channel.info[pending_videos[i].video_id]) : Pool_Finish(i, env)
  \/ \E i \in 1..Len(futures) : Main_Collect(i)
  \/ \E frame_duration \in FrameDurations, env \in CompileEnvs :
       Main_Assemble(frame_duration, env)

(***************************************************************************)
(* Spec: one run of the program on a new cache directory, for every        *)
(* channel, argument list and host of the model.                           *)
(***************************************************************************)
Next ==
  \/ \E a \in ArgSets, cpu_count \in 1..MaxCpu : Main_Setup(a, cpu_count)
  \/ RunSteps

Spec == Init /\ [][Next]_vars

(***************************************************************************)
(* SpecDuplicate: one run of the program on a channel whose enumeration    *)
(* yields the same upload twice.                                           *)
(***************************************************************************)
SpecDuplicate == InitOn({Channel7}) /\ [][Next]_vars

(***************************************************************************)
(* SpecRerun: up to MaxRuns runs in a row on the same channel and cache    *)
(* directory, each with or without --resume; the other arguments are       *)
(* --browser none with the worker count and the limit left unset.          *)
(***************************************************************************)
RerunArgSets == {a \in ArgSets : ~a.browser /\ a.max_workers = None /\ a.limit = None}

NextRerun ==
  \/ \E a \in RerunArgSets : Main_Setup(a, MaxCpu)
  \/ RunSteps
  \/ Rerun

SpecRerun == Init /\ [][NextRerun]_vars

(***************************************************************************)
(* SpecFetch: calls of fetch_channel_videos in a row, with every choice of *)
(* prefer_cache, force_refresh and browser, on the snapshot file the calls *)
(* before left.                                                            *)
(***************************************************************************)
\* an entry of a snapshot as serialize_videos writes it
StoredItem ==
  [video_id |-> IdA, title |-> <<"V">>, url |-> UrlOf(IdA), upload_date |-> None,
   duration |-> None, position |-> 0]

\* states of metadata.json that load_cached_metadata can meet besides the
\* snapshots persist_metadata wrote: no file, a file that cannot be read, a
\* text that is no JSON, JSON of another shape, another version
ForeignFiles ==
  << NoFile,
     [kind |-> "unreadable"],
     [kind |-> "undecodable"],
     [kind |-> "empty"],
     [kind |-> "truncated"],
     [kind |-> "garbage"],
     [kind |-> "json", data |-> [json |-> "array"]],
     [kind |-> "json", data |-> [json |-> "null"]],
     [kind |-> "json", data |-> [version |-> CACHE_VERSION,
                                 videos |-> <<StoredItem, [json |-> "string"]>>]],
     [kind |-> "json", data |-> [version |-> CACHE_VERSION + 1,
                                 videos |-> <<StoredItem>>]],
     [kind |-> "json", data |-> [version |-> CACHE_VERSION + 1,
                                 videos |-> <<[json |-> "string"]>>]] >>

\* between two calls of fetch_channel_videos the file is replaced
Disk_Set(f) ==
  /\ pc = "start"
  /\ fetch_ret = NoFetch
  /\ cache_file # f
  /\ cache_file' = f
  /\ UNCHANGED fetch_ret
  /\ UNCHANGED <<channel, frame_dir, run, pc, args, max_workers, auto_limited_workers,
                 videos, reused, processed_map, skipped_details, failure_breakdown,
                 pending_videos, worker_count, initial_completed, futures, progress,
                 handed, output_file, timestamps, task, exit_code, history>>

Fetch_Call(prefer_cache, force_refresh, browser, script, persist_ok) ==
  /\ pc = "start"
  /\ fetch_ret = NoFetch
  /\ \E ret \in {fetch_channel_videos(prefer_cache, force_refresh, browser, cache_file,
                                        channel.payload, script, persist_ok)} :
        /\ fetch_ret' = [outcome |-> ret.outcome, source |-> ret.source,
                         videos |-> ret.videos, queries |-> ret.queries,
                         sleeps |-> ret.sleeps, writes |-> ret.writes,
                         prefer_cache |-> prefer_cache, force_refresh |-> force_refresh,
                         browser |-> browser, file_before |-> cache_file,
                         script |-> script]
        /\ cache_file' = ret.file
  /\ UNCHANGED <<channel, frame_dir, run, pc, args, max_workers, auto_limited_workers,
                 videos, reused, processed_map, skipped_details, failure_breakdown,
                 pending_videos, worker_count, initial_completed, futures, progress,
                 handed, output_file, timestamps, task, exit_code, history>>

\* the caller of fetch_channel_videos is done with what the call gave
Fetch_Done ==
  /\ pc = "start"
  /\ fetch_ret # NoFetch
  /\ fetch_ret' = NoFetch
  /\ UNCHANGED <<channel, cache_file, frame_dir, run, pc, args, max_workers,
                 auto_limited_workers, videos, reused, processed_map, skipped_details,
                 failure_breakdown, pending_videos, worker_count, initial_completed,
                 futures, progress, handed, output_file, timestamps, task, exit_code, history>>

NextFetch ==
  \/ Fetch_Done
  \/ \E k \in 1..Len(ForeignFiles) : Disk_Set(ForeignFiles[k])
  \/ \E prefer_cache \in BOOLEAN, force_refresh \in BOOLEAN, browser \in BOOLEAN,
     script \in FetchScripts, persist_ok \in BOOLEAN :
       Fetch_Call(prefer_cache, force_refresh, browser, script, persist_ok)

SpecFetch == Init /\ [][NextFetch]_vars

(***************************************************************************)
(* The snapshot file under persist_metadata, step by step.  write_text     *)
(* (cache.py line 100) opens the file for writing, which empties it, then   *)
(* writes the text, then closes the file; the process can be ended, and     *)
(* another process can load the snapshot, between any two of these steps.   *)
(*   pc = "start"      no store is under way                               *)
(*   pc = "storing"    the store of videos is under way                    *)
(*   history           the list whose store ended last, if the file still  *)
(*                     holds it                                            *)
(*   fetch_ret         what the last load_cached_metadata met and gave     *)
(***************************************************************************)
\* the records that are stored: eligible, that is with an id and a URL
StoreRecords ==
  [video_id : {IdA}, title : {<<"V">>}, url : {UrlOf(IdA)},
   upload_date : {None, Some(1), Some(MaxTs)},
   duration : {None, Some(MIN_DURATION_SECONDS)},
   position : {0, 2}]

RECURSIVE ListsUpTo(_, _)
\* the sequences over S of length at most n
ListsUpTo(S, n) ==
  IF n = 0 THEN {<<>>}
  ELSE LET shorter == ListsUpTo(S, n - 1)
       IN shorter \cup {Append(l, x) : l \in {k \in shorter : Len(k) = n - 1}, x \in S}

StoreLists == ListsUpTo(StoreRecords, MaxStored)

CacheLocals ==
  <<channel, frame_dir, run, args, max_workers, auto_limited_workers, reused,
    processed_map, skipped_details, failure_breakdown, pending_videos, worker_count,
    initial_completed, futures, progress, handed, output_file, timestamps, task, exit_code>>

\* line 100, open(path, "w"): the file is created or emptied
Store_Open(vs) ==
  /\ pc = "start"
  /\ pc' = "storing"
  /\ videos' = vs
  /\ cache_file' = [kind |-> "empty"]
  /\ history' = <<>>
  /\ fetch_ret' = NoFetch
  /\ UNCHANGED CacheLocals

\* line 100, a first part of the text has reached the file
Store_Write ==
  /\ pc = "storing"
  /\ cache_file.kind = "empty"
  /\ cache_file' = [kind |-> "truncated"]
  /\ UNCHANGED <<pc, videos, history, fetch_ret>>
  /\ UNCHANGED CacheLocals

\* line 100, the rest of the text is written and the file closed
Store_Close ==
  /\ pc = "storing"
  /\ cache_file' = persist_metadata(videos)
  /\ pc' = "start"
  /\ history' = <<videos>>
  /\ videos' = <<>>
  /\ UNCHANGED fetch_ret
  /\ UNCHANGED CacheLocals

\* the process ends during the store: the file stays as it is
Store_Interrupt ==
  /\ pc = "storing"
  /\ pc' = "start"
  /\ videos' = <<>>
  /\ UNCHANGED <<cache_file, history, fetch_ret>>
  /\ UNCHANGED CacheLocals

\* lines 81-92: this process after a store, a later run or another process
\* loads the snapshot
Cache_Load ==
  /\ \E ret \in {load_cached_metadata(cache_file)} :
        fetch_ret' = [outcome |-> "loaded", file |-> cache_file, during |-> pc,
                      stored |-> history, raised |-> ret.raised, value |-> ret.value]
  /\ fetch_ret' # fetch_ret
  /\ UNCHANGED <<pc, videos, cache_file, history>>
  /\ UNCHANGED CacheLocals

NextCache ==
  \/ \E vs \in StoreLists : Store_Open(vs)
  \/ Store_Write
  \/ Store_Close
  \/ Store_Interrupt
  \/ Cache_Load

InitCache == Init /\ channel = Channel1

(***************************************************************************)
(* _calculate_timestamp on its own: it is called for one duration and two  *)
(* percents.                                                               *)
(***************************************************************************)
Durations == {None} \cup {Some(d) : d \in -1..MaxDuration}

\* percents from below 0 to above 100, 100.0 among them
Percents ==
  {0 - PercentStep, FullPercent, FullPercent + PercentStep}
    \cup {p \in 0..FullPercent : p % PercentStep = 0}

Timestamp_Call(d, p1, p2) ==
  /\ pc = "start"
  /\ timestamps = <<>>
  /\ timestamps' = [duration |-> d, percent |-> <<p1, p2>>,
                    value |-> <<_calculate_timestamp(d, p1), _calculate_timestamp(d, p2)>>]
  /\ UNCHANGED <<channel, cache_file, frame_dir, run, pc, args, max_workers,
                 auto_limited_workers, fetch_ret, videos, reused, processed_map,
                 skipped_details, failure_breakdown, pending_videos, worker_count,
                 initial_completed, futures, progress, handed, output_file, task,
                 exit_code, history>>

NextTimestamp ==
  \E d \in Durations, p1 \in Percents, p2 \in Percents : Timestamp_Call(d, p1, p2)

SpecTimestamp == InitCache /\ [][NextTimestamp]_vars

SpecCache == InitCache /\ [][NextCache]_vars


(***************************************************************************)
(* SpecExtract: one call of extract_first_frame followed step by step, in  *)
(* a worker process that can be ended at any step.                         *)
(*   task.step          "idle", "retrieve" (lines 142-160), "locate"       *)
(*                      (162-200), "capture" (202, before ffmpeg runs),    *)
(*                      "capturing" (line 88, ffmpeg runs), "cleanup"      *)
(*                      (205-218), "done" (the call returned or raised),   *)
(*                      "killed" (the process was ended)                   *)
(*   task.calls         the retrieval calls made: whether each was made    *)
(*                      with the browser cookies, and its answer           *)
(*   task.download_dir  "empty", "media" (the retrieved media is in it) or *)
(*                      "removed"                                          *)
(*   frame_dir          the file at frames/<video id>.png                  *)
(***************************************************************************)
DlNone == [kind |-> "none", info |-> NoInfo, media |-> FALSE,
           cookie |-> FALSE, age |-> FALSE, rate |-> FALSE]
DlNoMedia(info) == [kind |-> "info", info |-> info, media |-> FALSE,
                    cookie |-> FALSE, age |-> FALSE, rate |-> FALSE]

\* what the media retrieval service may answer to a call for the video id
RetrievalAnswers(id) ==
  {DlInfo(channel.info[id]),
   DlInfo(Info(<<"str", MaxTs>>, <<"num", 1>>)),
   DlInfo(Info(<<"bad">>, <<"num", 2>>)),
   DlNoMedia(channel.info[id]),
   DlNone,
   DlError(TRUE, FALSE, FALSE),
   DlError(TRUE, TRUE, FALSE),
   DlError(FALSE, TRUE, FALSE),
   DlError(FALSE, FALSE, TRUE),
   DlError(FALSE, FALSE, FALSE),
   DlCrash}

\* the records a task can be given: those of a fresh fetch of the channel
TaskRecords == Range(SortBacklog(BacklogFrom(<<>>, _iter_entries(channel.payload), 0)))

\* everything but the task and the frame directory
ExtractLocals ==
  <<channel, cache_file, run, pc, args, max_workers, auto_limited_workers, fetch_ret,
    videos, reused, processed_map, skipped_details, failure_breakdown, pending_videos,
    worker_count, initial_completed, futures, progress, handed, output_file, timestamps,
    exit_code, history>>

\* the call raises
TaskRaises(exc, reason) ==
  [task EXCEPT !.step = "done",
               !.outcome = [kind |-> "error", exc |-> exc, reason |-> reason]]

\* lines 108-141: the directories are made, the options are built
Task_Begin(metadata, browser) ==
  /\ pc = "start"
  /\ task = NoTask
  /\ task' = [step |-> "retrieve", metadata |-> metadata, browser |-> browser,
              cookies_enabled |-> browser, attempt |-> 1,
              attempts |-> ExtractAttempts(browser), calls |-> <<>>,
              answer |-> DlNone, download_dir |-> "empty", upload_date |-> None,
              outcome |-> NoOutcome]
  /\ UNCHANGED frame_dir
  /\ UNCHANGED ExtractLocals

\* lines 142-160: one round of the loop, the retrieval call and its answer
Task_Retrieve(answer) ==
  /\ task.step = "retrieve"
  /\ LET called == [task EXCEPT !.calls = Append(task.calls,
                                   [cookies |-> task.cookies_enabled, answer |-> answer])]
     IN task' =
          IF answer.kind = "crash"
          THEN [called EXCEPT !.step = "done",
                              !.outcome = [kind |-> "error", exc |-> "Exception",
                                           reason |-> MsgUnknownError]]
          ELSE IF answer.kind = "error"
          THEN IF DropsCookies(task.cookies_enabled, answer)
               THEN [called EXCEPT !.cookies_enabled = FALSE,
                                   !.attempt = task.attempt + 1,
                                   !.step = IF task.attempt + 1 > task.attempts
                                            THEN "locate" ELSE "retrieve"]
               ELSE [called EXCEPT
                       !.step = "done",
                       !.outcome =
                          [kind |-> "error", exc |-> "FrameExtractionError",
                           reason |-> IF answer.age THEN MsgAgeRestricted
                                      ELSE IF answer.rate THEN MsgRateLimited
                                      ELSE MsgFailedDownloadPrefix \o task.metadata.title]]
          ELSE [called EXCEPT !.step = "locate",
                              !.answer = answer,
                              !.download_dir = IF answer.kind = "info" /\ answer.media
                                               THEN "media" ELSE "empty"]
  /\ UNCHANGED frame_dir
  /\ UNCHANGED ExtractLocals

\* lines 162-200: the retrieved media is located, the upload date resolved
Task_Locate ==
  /\ task.step = "locate"
  /\ task' =
       IF task.answer.kind = "none"
       THEN TaskRaises("FrameExtractionError", MsgFailedDownloadPrefix \o task.metadata.title)
       ELSE IF task.download_dir # "media"
       THEN TaskRaises("FrameExtractionError", MsgUnableLocatePrefix \o task.metadata.title)
       ELSE [task EXCEPT !.step = "capture",
                         !.upload_date = ResolveUploadDate(task.metadata, task.answer.info)]
  /\ UNCHANGED frame_dir
  /\ UNCHANGED ExtractLocals

\* lines 202-203, 81-88: ffmpeg is started on the media, its destination the
\* frame path itself
Task_CaptureStart ==
  /\ task.step = "capture"
  /\ task' = [task EXCEPT !.step = "capturing"]
  /\ UNCHANGED frame_dir
  /\ UNCHANGED ExtractLocals

\* line 88: ffmpeg has opened its destination and written a part of the image
Task_CaptureWrite ==
  /\ task.step = "capturing"
  /\ frame_dir[task.metadata.video_id] # "partial"
  /\ frame_dir' = [frame_dir EXCEPT ![task.metadata.video_id] = "partial"]
  /\ UNCHANGED task
  /\ UNCHANGED ExtractLocals

\* lines 88-93: ffmpeg has ended: with the whole image ("ok"), with an exit
\* code that is not 0 ("fail"), or with exit code 0 and no file ("no_output")
Task_CaptureEnd(ffmpeg) ==
  /\ task.step = "capturing"
  /\ ffmpeg = "no_output" => frame_dir[task.metadata.video_id] = "absent"
  /\ IF ffmpeg = "ok"
     THEN /\ frame_dir' = [frame_dir EXCEPT ![task.metadata.video_id] = "frame"]
          /\ task' = [task EXCEPT !.step = "cleanup"]
     ELSE /\ UNCHANGED frame_dir
          /\ task' = TaskRaises("FrameExtractionError",
                                IF ffmpeg = "fail"
                                THEN MsgFfmpegFailedPrefix \o MsgUnknownError
                                ELSE MsgFfmpegNoFramePrefix
                                       \o FramePathText(task.metadata.video_id))
  /\ UNCHANGED ExtractLocals

\* lines 205-220: the media and its directory are removed, the result returned
Task_Cleanup ==
  /\ task.step = "cleanup"
  /\ task' = [task EXCEPT
                !.step = "done",
                !.download_dir = "removed",
                !.outcome = [kind |-> "result",
                             value |-> FrameResult(task.metadata, task.metadata.video_id,
                                                   task.upload_date)]]
  /\ UNCHANGED frame_dir
  /\ UNCHANGED ExtractLocals

\* the worker process is ended while the call runs
Task_Interrupt ==
  /\ task.step \in {"retrieve", "locate", "capture", "capturing", "cleanup"}
  /\ task' = [task EXCEPT !.step = "killed"]
  /\ UNCHANGED frame_dir
  /\ UNCHANGED ExtractLocals

\* another task is looked at, on a new cache directory
Task_Reset ==
  /\ task.step \in {"done", "killed"}
  /\ task' = NoTask
  /\ frame_dir' = NoFrames
  /\ UNCHANGED ExtractLocals

NextExtract ==
  \/ \E metadata \in TaskRecords, browser \in BOOLEAN : Task_Begin(metadata, browser)
  \/ /\ task.step = "retrieve"
     /\ \E answer \in RetrievalAnswers(task.metadata.video_id) : Task_Retrieve(answer)
  \/ Task_Locate
  \/ Task_CaptureStart
  \/ Task_CaptureWrite
  \/ \E ffmpeg \in {"ok", "fail", "no_output"} : Task_CaptureEnd(ffmpeg)
  \/ Task_Cleanup
  \/ Task_Interrupt
  \/ Task_Reset

SpecExtract == Init /\ [][NextExtract]_vars


(***************************************************************************)
(* The claims.                                                             *)
(***************************************************************************)
ScanDone == pc \in {"dispatch", "pool", "assemble", "exit", "crashed"} /\ videos # <<>>
RunOver == pc \in {"exit", "crashed"}
HandedPaths == [i \in 1..Len(handed[1]) |-> handed[1][i].frame_path]
VideoIds == Range(IdsOf(videos))

\* C1: in a run with --resume, once the resume scan has run, every record
\* whose frame existed at the scan has a result in processed_map, no task is
\* submitted for it, and the run has gone on (it did not end in the scan).
C1_ResumeScanReusesFrames ==
  (args.resume /\ ScanDone) =>
     /\ \A id \in reused : id \in DictKeys(processed_map)
     /\ \A i \in 1..Len(pending_videos) : pending_videos[i].video_id \notin reused
     /\ pc # "crashed"

\* C2: a finished run with --resume whose frame directory held a frame for
\* every record at the scan submitted no task and handed frames to the
\* compositor, the same sequence as every earlier such run on the same
\* records; and a run with --resume submits tasks only for records without
\* a frame.
C2_ResumeIdempotent ==
  /\ (RunOver /\ args.resume /\ videos # <<>> /\ reused = VideoIds) =>
        /\ futures = <<>>
        /\ handed # None
        /\ \A k \in 1..Len(history) :
             (history[k].resume /\ history[k].videos = IdsOf(videos)
                /\ history[k].reused = reused)
             => history[k].handed = Some(HandedPaths)
  /\ (args.resume /\ ScanDone) =>
        \A i \in 1..Len(pending_videos) : pending_videos[i].video_id \notin reused

\* the fetched record order restricted to the records that have a result
FetchedOrderOfResults ==
  SelectSeq(IdsOf(videos), LAMBDA id : id \in DictKeys(processed_map))

\* a run without --resume hands the frames in the fetched record order
C3_FreshPart ==
  (RunOver /\ ~args.resume /\ handed # None) => HandedPaths = FetchedOrderOfResults

\* a run with --resume that reuses the frames of exactly the records an
\* earlier run without --resume framed hands the sequence that run handed
C3_ResumedPart ==
  (RunOver /\ args.resume /\ videos # <<>>) =>
        \A k \in 1..Len(history) :
          (/\ ~history[k].resume
           /\ history[k].videos = IdsOf(videos)
           /\ history[k].handed # None
           /\ Range(history[k].handed[1]) = reused
           /\ reused = VideoIds)
          => (handed # None /\ Some(HandedPaths) = history[k].handed)

\* C3: a run without --resume hands the frames in the fetched record order
\* restricted to the successful records, and a run with --resume that reuses
\* the frames of exactly the records an earlier run without --resume framed
\* (same record list) hands the same sequence as that run.
C3_FreshAndResumedSameOrder == C3_FreshPart /\ C3_ResumedPart

Collected == {i \in 1..Len(futures) : futures[i].state = "collected"}
\* the frame path and the download directory of the i-th task are those of
\* its video id
TaskKey(i) == pending_videos[i].video_id
Failed == {i \in Collected : futures[i].outcome.kind = "error"}
Succeeded == Collected \ Failed
TallySum == failure_breakdown[CatAgeRestricted] + failure_breakdown[CatUnavailable]
            + failure_breakdown[CatBlocked] + failure_breakdown[CatOther]

\* the reported tasks of the video id that succeeded
SucceededOf(id) == {i \in Succeeded : pending_videos[i].video_id = id}

\* C4: whatever tasks have failed, the run is not aborted; every reported
\* task that succeeded has a result for its video in processed_map and
\* every result there is that of a task that succeeded, none that of a
\* failed one; the failure tally summed over the categories is the number
\* of failed tasks, each counted in the one category of its reason; and the
\* run ends only when every task has reported, handing the frames of the
\* tasks that succeeded and no other.
C4_FailureIsolation ==
  /\ pc # "crashed"
  /\ Len(skipped_details) = Cardinality(Failed)
  /\ TallySum = Cardinality(Failed)
  /\ \A c \in Categories :
       failure_breakdown[c] =
         Cardinality({k \in 1..Len(skipped_details) : skipped_details[k][3] = c})
  /\ \A i \in Succeeded :
       /\ pending_videos[i].video_id \in DictKeys(processed_map)
       /\ DictValue(processed_map, pending_videos[i].video_id)
            \in {futures[j].outcome.value : j \in SucceededOf(pending_videos[i].video_id)}
  /\ \A id \in DictKeys(processed_map) : SucceededOf(id) # {}
  /\ \A i \in Failed :
       SucceededOf(pending_videos[i].video_id) = {}
         => pending_videos[i].video_id \notin DictKeys(processed_map)
  /\ (pc = "exit" /\ futures # <<>>) =>
       /\ AllCollected
       /\ Succeeded # {} =>
            /\ handed # None
            /\ Len(handed[1]) =
                 Cardinality({r \in 1..Len(videos) : SucceededOf(videos[r].video_id) # {}})
            /\ Range(handed[1]) \subseteq {futures[i].outcome.value : i \in Succeeded}
            /\ \A i \in Succeeded :
                 \E k \in 1..Len(handed[1]) :
                    handed[1][k].metadata.video_id = pending_videos[i].video_id
       /\ Succeeded = {} => handed = None /\ exit_code = Some(2)

\* two tasks failed in two categories, a third succeeded and its frame was
\* handed to the compositor
C4_Witness ==
  /\ pc = "exit"
  /\ Cardinality(Failed) = 2
  /\ failure_breakdown[CatAgeRestricted] = 1
  /\ failure_breakdown[CatOther] = 1
  /\ Cardinality(Succeeded) = 1
  /\ handed # None

RECURSIVE SubmissionOrderMapFrom(_, _)
\* processed_map had the tasks reported in the order of their submission
SubmissionOrderMapFrom(map, i) ==
  IF i > Len(futures) THEN map
  ELSE IF futures[i].outcome.kind = "result"
       THEN SubmissionOrderMapFrom(
              DictSet(map, pending_videos[i].video_id, futures[i].outcome.value), i + 1)
       ELSE SubmissionOrderMapFrom(map, i + 1)

\* C5: the sequence handed to the compositor is the one a run hands in which
\* the same tasks, with the same outcomes, report in submission order.
C5_OrderIndependentOfCompletion ==
  (pc = "exit" /\ handed # None) =>
     handed[1] = AssembleProcessed(videos, SubmissionOrderMapFrom(<<>>, 1))

\* frames were handed in a run whose tasks reported out of submission order
C5_Witness ==
  /\ pc = "exit"
  /\ handed # None
  /\ \E i, j \in Succeeded :
       /\ i < j
       /\ DictGet(processed_map, pending_videos[j].video_id)
            < DictGet(processed_map, pending_videos[i].video_id)
       /\ HandedPaths # [k \in 1..Len(processed_map) |-> processed_map[k][1]]

\* x comes before y: by resolved upload date, a result without one after
\* every result with one, and by position among equals
ComesBefore(x, y) ==
  \/ x.upload_date # None /\ y.upload_date = None
  \/ x.upload_date # None /\ y.upload_date # None /\ x.upload_date[1] < y.upload_date[1]
  \/ x.upload_date = y.upload_date /\ x.metadata.position < y.metadata.position

\* C6: the frames handed to the compositor are the successful results, each
\* once, by resolved upload date ascending, the results without a date after
\* all others, and by ascending position among results of the same date (or
\* without one).
C6_AssemblyOrder ==
  (pc = "exit" /\ handed # None) =>
     /\ Range(handed[1]) = {processed_map[k][2] : k \in 1..Len(processed_map)}
     /\ Len(handed[1]) = Len(processed_map)
     /\ \A i, j \in 1..Len(handed[1]) : i < j => ComesBefore(handed[1][i], handed[1][j])

\* the example of the specification: results dated T1, absent, T3 at the
\* positions 0, 1, 2 are handed as T1, T3, absent
C6_Witness ==
  /\ pc = "exit"
  /\ handed # None
  /\ Len(handed[1]) = 3
  /\ [i \in 1..3 |-> handed[1][i].upload_date] = <<Some(1), Some(3), None>>
  /\ [i \in 1..3 |-> handed[1][i].metadata.position] = <<0, 2, 1>>

\* two results without a date are handed by position
C6_WitnessTieUndated ==
  /\ pc = "exit"
  /\ handed # None
  /\ Len(handed[1]) = 2
  /\ handed[1][1].upload_date = None /\ handed[1][2].upload_date = None
  /\ handed[1][1].metadata.position < handed[1][2].metadata.position

\* two results of the same date are handed by position
C6_WitnessTieDated ==
  /\ pc = "exit"
  /\ handed # None
  /\ Len(handed[1]) = 2
  /\ handed[1][1].upload_date # None
  /\ handed[1][1].upload_date = handed[1][2].upload_date
  /\ handed[1][1].metadata.position < handed[1][2].metadata.position

\* the number of tasks a pool of the configured size may run at once
PoolBound == IF max_workers < Len(pending_videos) THEN max_workers ELSE Len(pending_videos)

\* C7: one task is submitted per pending record (the records that have no
\* result after the resume scan), in their order, and the number of tasks
\* running at once is at most min(max_workers, number of pending records).
C7_OneTaskPerPendingBoundedPool ==
  pc \in {"pool", "exit"} =>
     /\ Len(futures) = Len(pending_videos)
     /\ (futures # <<>> =>
           pending_videos = SelectSeq(videos, LAMBDA v : v.video_id \notin reused))
     /\ Cardinality(Running) <= PoolBound

\* the pool runs as many tasks as it may while another task waits
C7_Witness ==
  /\ pc = "pool"
  /\ Len(pending_videos) = 3
  /\ max_workers = 2
  /\ Cardinality(Running) = 2
  /\ Queued # {}

\* C8 as stated: without a browser cookie source the pool has at most 2
\* workers, whatever worker count was requested.
C8_NoCookieCeilingAlways ==
  (pc = "pool" /\ ~args.browser) => worker_count <= NoCookieWorkerCeiling

\* C8, amended: without a browser cookie source and without a requested
\* worker count the pool has at most 2 workers, on every host.
C8_NoCookieCeilingByDefault ==
  (pc = "pool" /\ ~args.browser /\ args.max_workers = None) =>
     worker_count <= NoCookieWorkerCeiling

\* no cookie source, no requested count: the pool has 2 workers and more
\* tasks than workers
C8_Witness ==
  /\ pc = "pool"
  /\ ~args.browser
  /\ args.max_workers = None
  /\ worker_count = NoCookieWorkerCeiling
  /\ Len(pending_videos) > worker_count


\* a fetch was called, and the snapshot file held a list of records then
FetchCalled == fetch_ret # NoFetch
SnapshotBefore == load_cached_metadata(fetch_ret.file_before).value
UsableSnapshotBefore == Truthy(SnapshotBefore)

\* C9 as stated: a fetch called with prefer_cache while a usable snapshot
\* exists returns the records of the snapshot, with no query to the media
\* retrieval service and no write of the cache.
C9_CacheHitAlways ==
  (FetchCalled /\ fetch_ret.prefer_cache /\ UsableSnapshotBefore) =>
     /\ fetch_ret.outcome = "return"
     /\ fetch_ret.videos = SnapshotBefore[1]
     /\ fetch_ret.queries = 0
     /\ fetch_ret.writes = 0
     /\ cache_file = fetch_ret.file_before

\* C9, amended: a fetch called with prefer_cache and without force_refresh
\* while a usable snapshot exists returns the records of the snapshot, with
\* no query to the media retrieval service and no write of the cache.
C9_CacheHitShortCircuits ==
  (FetchCalled /\ fetch_ret.prefer_cache /\ ~fetch_ret.force_refresh
     /\ UsableSnapshotBefore) =>
     /\ fetch_ret.outcome = "return"
     /\ fetch_ret.videos = SnapshotBefore[1]
     /\ fetch_ret.queries = 0
     /\ fetch_ret.writes = 0
     /\ cache_file = fetch_ret.file_before

\* a fetch with prefer_cache and without force_refresh found the snapshot an
\* earlier fetch had stored
C9_Witness ==
  /\ FetchCalled
  /\ fetch_ret.prefer_cache
  /\ ~fetch_ret.force_refresh
  /\ UsableSnapshotBefore
  /\ fetch_ret.source = "cache_hit"
  /\ Len(fetch_ret.videos) >= 2

\* C10: a fetch raises ChannelFetchError only when no usable snapshot of the
\* channel is on disk (and the fresh fetch gave no records), whatever
\* prefer_cache and force_refresh are.
C10_RaisesOnlyWithoutSnapshot ==
  (FetchCalled /\ fetch_ret.outcome = "raise") => ~UsableSnapshotBefore

\* the part of C10 the code keeps: with prefer_cache
C10_WithPreferCache ==
  (FetchCalled /\ fetch_ret.outcome = "raise" /\ fetch_ret.prefer_cache)
     => ~UsableSnapshotBefore

(***************************************************************************)
(* C11: the snapshot file is never the cause of an abort.                  *)
(***************************************************************************)
\* the file holds no snapshot of the expected version and shape
NoSnapshotIn(f) ==
  \/ f.kind # "json"
  \/ ~IsObject(f.data)
  \/ f.data.version # CACHE_VERSION
  \/ DeserializeRaises(f.data)

\* C11: whatever the snapshot file holds (no file, unreadable, no JSON, JSON
\* of the wrong shape, another version), a fetch that prefers the cache does
\* not end with an exception of the cache load and goes on to query the
\* media retrieval service.
C11_BadSnapshotForcesRefetch ==
  (FetchCalled /\ fetch_ret.prefer_cache /\ NoSnapshotIn(fetch_ret.file_before)) =>
     /\ fetch_ret.outcome # "crash"
     /\ fetch_ret.queries >= 1

\* the part of C11 the code keeps: no file, a file that cannot be read, a
\* text that is no JSON and a version mismatch are cache misses
C11_MissesThatHold ==
  (/\ FetchCalled
   /\ fetch_ret.prefer_cache
   /\ \/ fetch_ret.file_before.kind \in {"missing", "unreadable"} \cup NotJsonKinds
      \/ /\ fetch_ret.file_before.kind = "json"
         /\ IsObject(fetch_ret.file_before.data)
         /\ fetch_ret.file_before.data.version # CACHE_VERSION) =>
     /\ fetch_ret.outcome # "crash"
     /\ fetch_ret.queries >= 1

(***************************************************************************)
(* C12, C13: the store and the load of the snapshot.                       *)
(***************************************************************************)
Loaded == fetch_ret # NoFetch /\ fetch_ret.outcome = "loaded"

\* C12: whenever the snapshot is loaded, during a store or after a store
\* that was interrupted, the file is a complete snapshot (or was never
\* written), never an empty or a truncated file.
C12_StoreIsAtomic ==
  Loaded => fetch_ret.file.kind \in {"missing", "json"}

\* the fields a round trip keeps
SameRecord(v, w) ==
  /\ v.video_id = w.video_id
  /\ v.url = w.url
  /\ v.upload_date = w.upload_date
  /\ v.duration = w.duration
  /\ v.position = w.position

\* C13: the load of a snapshot whose store has ended gives a list as long as
\* the stored one whose records have, in the same order, the same id, URL,
\* upload date (absent included), duration (absent included) and position.
C13_CacheRoundTrip ==
  (Loaded /\ fetch_ret.stored # <<>>) =>
     /\ ~fetch_ret.raised
     /\ fetch_ret.value # None
     /\ Len(fetch_ret.value[1]) = Len(fetch_ret.stored[1])
     /\ \A i \in 1..Len(fetch_ret.stored[1]) :
           SameRecord(fetch_ret.stored[1][i], fetch_ret.value[1][i])

\* a list of two records was stored and loaded, the first with a date and a
\* duration and a position that is not its index, the second with neither
C13_Witness ==
  /\ Loaded
  /\ fetch_ret.stored # <<>>
  /\ Len(fetch_ret.stored[1]) = 2
  /\ fetch_ret.stored[1][1].upload_date = Some(MaxTs)
  /\ fetch_ret.stored[1][1].duration # None
  /\ fetch_ret.stored[1][1].position = 2
  /\ fetch_ret.stored[1][2].upload_date = None
  /\ fetch_ret.stored[1][2].duration = None
  /\ fetch_ret.value # None
  /\ Len(fetch_ret.value[1]) = 2

(***************************************************************************)
(* C14: the exit code of a run without frames.                             *)
(***************************************************************************)
\* the enumeration of the channel holds no eligible entry
ZeroEligible == BacklogFrom(<<>>, _iter_entries(channel.payload), 0) = <<>>

\* the run ended after a fetch that found no eligible record and had no
\* snapshot to fall back on
EndedWithoutRecords ==
  pc = "exit" /\ ZeroEligible /\ fetch_ret # NoFetch /\ fetch_ret.source = "no_eligible"

\* the run ended after every extraction it scheduled had failed, with no
\* frame reused
EndedWithoutFrames ==
  /\ pc = "exit"
  /\ futures # <<>>
  /\ \A i \in 1..Len(futures) :
        futures[i].state = "collected" /\ futures[i].outcome.kind = "error"
  /\ processed_map = <<>>

\* C14: a run whose fetch finds no eligible record exits with code 2
\* without calling the compositor, and so does a run all of whose
\* extractions fail.
C14_EmptyInputExitsTwo ==
  (EndedWithoutRecords \/ EndedWithoutFrames) =>
     (exit_code = Some(2) /\ handed = None)

\* the part of C14 the code keeps: no frame after processing is exit code 2
C14_NoFrameExitsTwo ==
  EndedWithoutFrames => (exit_code = Some(2) /\ handed = None)

(***************************************************************************)
(* C15: the compositor leaves a whole video or none.                       *)
(***************************************************************************)
\* the run called compile_video and it raised VideoCompilationError
CompileFailed == pc = "exit" /\ handed # None /\ exit_code = Some(1)

\* C15: after a call of the compositor that ended with
\* VideoCompilationError there is no file at the output path.
C15_CompileAllOrNothing ==
  CompileFailed => output_file = NoOutput

\* the part of C15 the code keeps: a hold duration that is not positive and
\* a writer that fails without creating a file leave no file, and a call
\* that returns leaves the video of every frame
C15_WholeVideoOnReturn ==
  (pc = "exit" /\ handed # None /\ exit_code = Some(0)) =>
     output_file = [kind |-> "video", frames |-> Len(handed[1]), complete |-> TRUE]

(***************************************************************************)
(* C16: the capture timestamp.                                             *)
(***************************************************************************)
TimestampCalled == timestamps # <<>>
InRange(p) == 0 <= p /\ p <= FullPercent
PositiveDuration == timestamps.duration # None /\ timestamps.duration[1] > 0

\* for a duration d > 0 and a percent in [0, 100] the timestamp is in [0, d]
C16_WithinDuration ==
  (TimestampCalled /\ PositiveDuration) =>
     \A k \in 1..2 :
        InRange(timestamps.percent[k]) =>
           /\ 0 <= timestamps.value[k]
           /\ timestamps.value[k] <= timestamps.duration[1] * Second

\* for a duration d > 0 the timestamp at 100 percent is d - 0.1
C16_AtFullPercent ==
  (TimestampCalled /\ PositiveDuration) =>
     \A k \in 1..2 :
        timestamps.percent[k] = FullPercent =>
           timestamps.value[k] = timestamps.duration[1] * Second - EndMargin

\* for a duration d > 0 the timestamp does not decrease with the percent
C16_Monotonic ==
  (/\ TimestampCalled
   /\ PositiveDuration
   /\ InRange(timestamps.percent[1])
   /\ InRange(timestamps.percent[2])
   /\ timestamps.percent[1] <= timestamps.percent[2]) =>
     timestamps.value[1] <= timestamps.value[2]

\* for a duration that is absent or not positive the timestamp is 0
C16_ZeroWithoutDuration ==
  (TimestampCalled /\ ~PositiveDuration) =>
     (timestamps.value[1] = 0 /\ timestamps.value[2] = 0)

\* C16: for every percent in [0, 100] and duration d > 0 the timestamp is in
\* [0, d], does not decrease when the percent grows (100 included) and is
\* d - 0.1 at 100 percent; for a duration absent or <= 0 it is 0.
C16_CaptureTimestamp ==
  /\ C16_WithinDuration
  /\ C16_AtFullPercent
  /\ C16_Monotonic
  /\ C16_ZeroWithoutDuration

\* the parts of C16 the code keeps
C16_AllButMonotonic ==
  /\ C16_WithinDuration
  /\ C16_AtFullPercent
  /\ C16_ZeroWithoutDuration

(***************************************************************************)
(* C17: the run ends, after every task has reported, with every frame.     *)
(***************************************************************************)
\* the ids of the records that have a frame: reused at the resume scan, or
\* extracted by a task of this run
FramedIds ==
  reused \cup {pending_videos[i].video_id : i \in Succeeded}

\* the run ends only after every task it submitted has reported
C17_EndsAfterAllReported ==
  (RunOver /\ futures # <<>>) => \A i \in 1..Len(futures) : futures[i].state = "collected"

\* the frames the run hands over are those of every framed record; it hands
\* over none only if no record has a frame
C17_EveryFrameReported ==
  RunOver =>
     IF handed = None THEN FramedIds = {}
     ELSE {handed[1][i].metadata.video_id : i \in 1..Len(handed[1])} = FramedIds

\* C17, the part that is no liveness: the run ends only after every pending
\* task has reported, every record that was extracted or reused is in the
\* results, and the results are empty only if no record has a frame.
C17_EndsWithEveryResult == C17_EndsAfterAllReported /\ C17_EveryFrameReported

\* C17, the liveness, as a measure that every step of a run lowers: main
\* blocks only in as_completed (cli.py line 357), the pool starts a queued
\* task as soon as a worker is free, and every started task returns or
\* raises, so a run takes at most StepsLeft steps.
StepsOfPc ==
  CASE pc = "start" -> 5
    [] pc = "fetch" -> 4
    [] pc = "prepare" -> 3
    [] pc = "dispatch" -> 2
    [] pc \in {"pool", "assemble"} -> 1
    [] OTHER -> 0

StepsOfTask(f) ==
  CASE f.state = "queued" -> 3
    [] f.state = "running" -> 2
    [] f.state = "finished" -> 1
    [] OTHER -> 0

RECURSIVE StepsOfTasks(_)
StepsOfTasks(k) == IF k = 0 THEN 0 ELSE StepsOfTask(futures[k]) + StepsOfTasks(k - 1)

StepsLeft == StepsOfPc * (3 * Cardinality(Ids) + 1) + StepsOfTasks(Len(futures))

C17_EveryStepLowersStepsLeft == [][StepsLeft' < StepsLeft]_vars

(***************************************************************************)
(* C18: the attempts of a fetch and the waits between them.                *)
(***************************************************************************)
\* whether the k-th query of the fetch was made with the browser cookies
CookiesAt(k) ==
  fetch_ret.browser /\
    \A j \in 1..(k - 1) : ~(fetch_ret.script[j].kind = "error" /\ fetch_ret.script[j].cookie)

\* the k-th query failed and the failure was no credential error of a query
\* made with cookies
TransientAt(k) ==
  /\ fetch_ret.script[k].kind = "error"
  /\ ~(CookiesAt(k) /\ fetch_ret.script[k].cookie)

RECURSIVE WaitsUpTo(_)
\* the waits base * k after the transient failures among the first n queries
WaitsUpTo(n) ==
  IF n = 0 THEN <<>>
  ELSE IF TransientAt(n) THEN Append(WaitsUpTo(n - 1), retry_delay_seconds * n)
  ELSE WaitsUpTo(n - 1)

\* C18: a fetch makes at most max_retries queries, the credential
\* downgrades among them; it waits base * k after the transient failure of
\* query k when another query follows, and at no other time: not after a
\* credential downgrade and not after the last query.
C18_BoundedRetriesLinearBackOff ==
  FetchCalled =>
     /\ fetch_ret.queries <= max_retries
     /\ fetch_ret.queries > 0 => fetch_ret.sleeps = WaitsUpTo(fetch_ret.queries - 1)
     /\ fetch_ret.queries = 0 => fetch_ret.sleeps = <<>>

\* a fetch whose three queries failed, the first with a credential error it
\* answered by dropping the cookies, waited 2 * base before the third only
C18_Witness ==
  /\ FetchCalled
  /\ fetch_ret.queries = max_retries
  /\ fetch_ret.browser
  /\ fetch_ret.script[1].cookie /\ fetch_ret.script[1].kind = "error"
  /\ fetch_ret.sleeps = <<retry_delay_seconds * 2>>
  /\ fetch_ret.outcome = "raise"

\* a fetch whose three queries failed waited base, then 2 * base
C18_WitnessTwoWaits ==
  /\ FetchCalled
  /\ fetch_ret.queries = max_retries
  /\ fetch_ret.sleeps = <<retry_delay_seconds, retry_delay_seconds * 2>>

(***************************************************************************)
(* C19: the query without credentials after a credential error.            *)
(***************************************************************************)
\* the k-th query was made with the browser cookies and failed with a
\* credential error
CredentialErrorAt(k) ==
  /\ k <= fetch_ret.queries
  /\ CookiesAt(k)
  /\ fetch_ret.script[k].kind = "error"
  /\ fetch_ret.script[k].cookie

\* C19: after a credential error of a query made with cookies, on whichever
\* attempt, the fetch makes a further query (without the cookies) before it
\* ends.
C19_DowngradeGetsAQuery ==
  FetchCalled =>
     \A k \in 1..max_retries :
        CredentialErrorAt(k) => (fetch_ret.queries >= k + 1 /\ ~CookiesAt(k + 1))

\* the part of C19 the code keeps: before the last attempt
C19_DowngradeBeforeLastAttempt ==
  FetchCalled =>
     \A k \in 1..(max_retries - 1) :
        CredentialErrorAt(k) => (fetch_ret.queries >= k + 1 /\ ~CookiesAt(k + 1))

(***************************************************************************)
(* C20: the records of a fresh fetch.                                      *)
(***************************************************************************)
FreshFetch == FetchCalled /\ fetch_ret.outcome = "return" /\ fetch_ret.source = "fresh"
LiveOrUpcoming(e) == e.live_status \in {"is_live", "is_upcoming"}
HoldsShortSegment(url) == Contains(Lower(url), <<"/","s","h","o","r","t","s","/">>)

C20_WitnessUnknownDuration ==
  /\ FreshFetch
  /\ \E i \in 1..Len(fetch_ret.videos) : fetch_ret.videos[i].duration = None

\* a fresh fetch dropped a live broadcast
C20_WitnessLive ==
  /\ FreshFetch
  /\ \E k \in 1..Len(_iter_entries(channel.payload)) :
        LiveOrUpcoming(_iter_entries(channel.payload)[k])

(***************************************************************************)
(* C21: the positions of the records of a fresh fetch.                     *)
(***************************************************************************)
PositionsOf(records) == {records[i].position : i \in 1..Len(records)}

\* C21: the positions of the n records a fresh fetch returns are exactly
\* 0..n-1, without a gap, however many entries were dropped before them.
C21_PositionsAreDense ==
  FreshFetch => PositionsOf(fetch_ret.videos) = 0..(Len(fetch_ret.videos) - 1)

\* the part of C21 the code keeps: the position of a record is the index of
\* its entry in the enumeration, so the positions are distinct and grow in
\* enumeration order
C21_PositionsAreEnumerationIndexes ==
  FreshFetch =>
     LET yielded == _iter_entries(channel.payload)
         records == fetch_ret.videos
     IN /\ \A i \in 1..Len(records) :
              /\ records[i].position \in 0..(Len(yielded) - 1)
              /\ yielded[records[i].position + 1].id = records[i].video_id
        /\ \A i, j \in 1..Len(records) :
              i # j => records[i].position # records[j].position

(***************************************************************************)
(* C22: the order of the records of a fresh fetch.                         *)
(***************************************************************************)
\* the record v comes before the record w: by upload date, a record without
\* one after every record with one, and by position among equals
RecordBefore(v, w) ==
  \/ v.upload_date # None /\ w.upload_date = None
  \/ v.upload_date # None /\ w.upload_date # None /\ v.upload_date[1] < w.upload_date[1]
  \/ v.upload_date = w.upload_date /\ v.position < w.position

\* the entry e passes the filters of the fetcher
Survives(e) ==
  /\ ~LiveOrUpcoming(e)
  /\ (e.webpage_url # <<>> \/ e.url # <<>>)
  /\ ~HoldsShortSegment(IF e.webpage_url # <<>> THEN e.webpage_url ELSE e.url)
  /\ (e.duration = None \/ e.duration[1] >= MIN_DURATION_SECONDS)
  /\ (e.id # <<>> \/ e.display_id # <<>>)

\* C22: the list a fresh fetch returns is sorted by upload date ascending,
\* the records without a date after all others, by ascending position among
\* records of the same date; it holds one record for each surviving entry
\* and no other; and it is the list the snapshot holds when the store ends.
C22_FreshFetchSorted ==
  FreshFetch =>
     LET yielded == _iter_entries(channel.payload)
         records == fetch_ret.videos
         surviving == {k \in 1..Len(yielded) : Survives(yielded[k])}
     IN /\ \A i, j \in 1..Len(records) : i < j => RecordBefore(records[i], records[j])
        /\ Len(records) = Cardinality(surviving)
        /\ PositionsOf(records) = {k - 1 : k \in surviving}
        /\ cache_file # fetch_ret.file_before =>
              load_cached_metadata(cache_file).value = Some(records)

\* the example of the specification: the entries dated T1, absent, T3 come
\* back as T1, T3, absent, and the snapshot holds them so
C22_Witness ==
  /\ FreshFetch
  /\ Len(fetch_ret.videos) = 3
  /\ [i \in 1..3 |-> fetch_ret.videos[i].upload_date] = <<Some(1), Some(3), None>>
  /\ [i \in 1..3 |-> fetch_ret.videos[i].position] = <<0, 2, 1>>
  /\ cache_file = persist_metadata(fetch_ret.videos)

\* two records of the same date come back by position
C22_WitnessTie ==
  /\ FreshFetch
  /\ Len(fetch_ret.videos) = 2
  /\ fetch_ret.videos[1].upload_date # None
  /\ fetch_ret.videos[1].upload_date = fetch_ret.videos[2].upload_date
  /\ fetch_ret.videos[1].position < fetch_ret.videos[2].position

\* an enumeration from the newest upload to the oldest comes back reversed
C22_WitnessReversed ==
  /\ FreshFetch
  /\ Len(fetch_ret.videos) = 2
  /\ \A i \in 1..2 : fetch_ret.videos[i].upload_date # None
  /\ [i \in 1..2 |-> fetch_ret.videos[i].position] = <<1, 0>>

(***************************************************************************)
(* C23: the category of a failure.                                         *)
(***************************************************************************)
Letters ==
  {"a","b","c","d","e","f","g","h","i","j","k","l","m","n","o","p","q","r","s","t",
   "u","v","w","x","y","z"}

\* the text holds the word as a word of its own, not inside another word
HoldsWord(text, word) ==
  \E i \in 1..(Len(text) - Len(word) + 1) :
     /\ SubSeq(text, i, i + Len(word) - 1) = word
     /\ (i = 1 \/ text[i - 1] \notin Letters)
     /\ (i + Len(word) > Len(text) \/ text[i + Len(word)] \notin Letters)

\* the category the rules give: an age-verification term, then unavailable
\* or private, then blocked, in any case of letters, the first match winning
CategoryByTerms(reason) ==
  LET lowered == Lower(reason)
  IN IF HoldsWord(lowered, <<"a","g","e">>) THEN CatAgeRestricted
     ELSE IF Contains(lowered, <<"u","n","a","v","a","i","l","a","b","l","e">>)
             \/ Contains(lowered, <<"p","r","i","v","a","t","e">>) THEN CatUnavailable
     ELSE IF Contains(lowered, <<"b","l","o","c","k","e","d">>) THEN CatBlocked
     ELSE CatOther

\* C23: every failure is put into the category the rules give for its
\* message; a message that holds the letters "age" only inside another word
\* (a title) and none of the other terms is put into Other; and every
\* pending record has its task whatever the categories are.
C23_ClassifiedByTerms ==
  /\ \A k \in 1..Len(skipped_details) :
        skipped_details[k][3] = CategoryByTerms(skipped_details[k][2])
  /\ pc \in {"pool", "exit"} => Len(futures) = Len(pending_videos)

\* the part of C23 the code keeps: every failure has one of the four
\* categories, the message of an age restriction is Age-restricted, a message
\* without the letters "age", "unavailable", "private" and "blocked" is
\* Other, and every pending record has its task
C23_TotalAndNoControlFlow ==
  /\ \A k \in 1..Len(skipped_details) :
        LET reason == skipped_details[k][2]
            category == skipped_details[k][3]
        IN /\ category \in Categories
           /\ reason = MsgAgeRestricted => category = CatAgeRestricted
           /\ (/\ ~Contains(Lower(reason), <<"a","g","e">>)
               /\ ~Contains(Lower(reason), <<"u","n","a","v","a","i","l","a","b","l","e">>)
               /\ ~Contains(Lower(reason), <<"p","r","i","v","a","t","e">>)
               /\ ~Contains(Lower(reason), <<"b","l","o","c","k","e","d">>))
              => category = CatOther
  /\ pc \in {"pool", "exit"} => Len(futures) = Len(pending_videos)

(***************************************************************************)
(* C24: the progress events.                                               *)
(***************************************************************************)
\* the error count the bar shows after k events
ErrorsAfter(k) == IF k = 0 THEN 0 ELSE progress[k].errors

EventIndexes == [k \in 1..Len(progress) |-> k]
\* the events of failed tasks and of tasks that gave a result, in order
FailureEvents == SelectSeq(EventIndexes, LAMBDA k : ErrorsAfter(k) > ErrorsAfter(k - 1))
SuccessEvents == SelectSeq(EventIndexes, LAMBDA k : ErrorsAfter(k) = ErrorsAfter(k - 1))

\* C24: there is one progress event per reported task, in the order of the
\* reports: the k-th event shows the count (resumed results + k) and the
\* number of failed tasks among the first k reports, and carries the title
\* of the k-th reported task; when the run has ended after its tasks, the
\* count shown is the number of records, which is the number of results
\* plus the number of failures.
C24_ProgressCounts ==
  /\ Len(progress) = Cardinality(Collected)
  /\ \A k \in 1..Len(progress) :
        /\ progress[k].n = initial_completed + k
        /\ progress[k].errors \in {ErrorsAfter(k - 1), ErrorsAfter(k - 1) + 1}
  /\ ErrorsAfter(Len(progress)) = Cardinality(Failed)
  /\ [j \in 1..Len(FailureEvents) |-> progress[FailureEvents[j]].title]
        = [j \in 1..Len(skipped_details) |-> skipped_details[j][1]]
  /\ Len(SuccessEvents) = Cardinality(Succeeded)
  /\ (\A i, j \in 1..Len(futures) : i # j => TaskKey(i) # TaskKey(j)) =>
        [j \in 1..Len(SuccessEvents) |-> progress[SuccessEvents[j]].title]
           = [j \in 1..(Len(processed_map) - initial_completed) |->
                 processed_map[initial_completed + j][2].metadata.title]
  /\ (pc = "exit" /\ futures # <<>>) =>
        /\ progress[Len(progress)].n = Len(videos)
        /\ Len(videos) = (initial_completed + Cardinality(Succeeded)) + Cardinality(Failed)
        /\ Cardinality(Failed) = Len(skipped_details)

\* a run of three tasks has ended: the second report was a failure, the
\* others were results, and the tasks reported out of submission order
C24_Witness ==
  /\ pc = "exit"
  /\ Len(progress) = 3
  /\ [k \in 1..3 |-> progress[k].n] = <<1, 2, 3>>
  /\ [k \in 1..3 |-> progress[k].errors] = <<0, 1, 1>>
  /\ progress[1].title = pending_videos[3].title
  /\ Len(processed_map) = 2

(***************************************************************************)
(* C25..C28: one extraction task, step by step.                            *)
(***************************************************************************)
TaskBegun == task # NoTask
TaskEnded == TaskBegun /\ task.step = "done"
TaskGaveResult == TaskEnded /\ task.outcome.kind = "result"

\* the k-th retrieval call was made with credentials and failed with a
\* credential problem
CredentialFailure(k) ==
  /\ task.calls[k].cookies
  /\ task.calls[k].answer.kind = "error"
  /\ task.calls[k].answer.cookie

\* the reasons of a retrieval failure that ends the task
RetrievalFailureReasons ==
  {MsgAgeRestricted, MsgRateLimited, MsgFailedDownloadPrefix \o task.metadata.title}

C25_WitnessRetrySucceeds ==
  /\ TaskGaveResult
  /\ Len(task.calls) = 2
  /\ CredentialFailure(1)

\* a first call with credentials failed for another reason: one call
C25_WitnessNoRetry ==
  /\ TaskEnded
  /\ Len(task.calls) = 1
  /\ task.calls[1].cookies
  /\ task.calls[1].answer = DlError(FALSE, TRUE, FALSE)
  /\ task.outcome.reason = MsgAgeRestricted

\* the upload date is resolved once the media is located
DateResolved == TaskBegun /\ (task.step \in {"capture", "capturing", "cleanup"} \/ TaskGaveResult)

\* the first present value of: the date of the record, the upload-date field
\* and the release-timestamp field of the retrieval step
RecordDateFirst(metadata, info) ==
  OrElse(metadata.upload_date,
         OrElse(_parse_upload_date(info.upload_date),
                _parse_upload_date(info.release_timestamp)))

\* C26: the resolved upload date of a task is the first present value in the
\* order: the date of the record, the upload-date field of the retrieval
\* step, its release-timestamp field; it is the date of the record whenever
\* the record has one.
C26_RecordDateFirst ==
  /\ DateResolved =>
        task.upload_date = RecordDateFirst(task.metadata, task.answer.info)
  /\ TaskGaveResult =>
        task.outcome.value.upload_date = RecordDateFirst(task.metadata, task.answer.info)

\* the part of C26 the code keeps: the upload-date field comes before the
\* release-timestamp field, and the date of the record is the resolved date
\* when the retrieval step gives no date
C26_RetrievalDateFirst ==
  DateResolved =>
     LET info == task.answer.info
     IN /\ _parse_upload_date(info.upload_date) # None =>
              task.upload_date = _parse_upload_date(info.upload_date)
        /\ (_parse_upload_date(info.upload_date) = None
              /\ _parse_upload_date(info.release_timestamp) = None) =>
              task.upload_date = task.metadata.upload_date

\* the capture of the task has ended with the whole image
CaptureSucceeded ==
  TaskBegun /\ (task.step = "cleanup" \/ TaskGaveResult)

\* C27: in every state, while the capture runs, after it failed and after
\* the process was ended, there is a file at frames/<video id>.png only if
\* the capture for that video has ended with success, and then the file is
\* the whole image.
C27_FrameOnlyAfterCapture ==
  \A id \in Ids :
     frame_dir[id] # "absent" =>
        /\ CaptureSucceeded
        /\ task.metadata.video_id = id
        /\ frame_dir[id] = "frame"

\* the part of C27 the code keeps: a task that gave a result left the whole
\* image at the frame path, and a task writes to no other frame path
C27_ResultHasWholeFrame ==
  /\ TaskGaveResult => frame_dir[task.metadata.video_id] = "frame"
  /\ \A id \in Ids :
        frame_dir[id] # "absent" => (TaskBegun /\ task.metadata.video_id = id)

\* the task ended with a failure of the frame capture
CaptureFailed ==
  /\ TaskEnded
  /\ task.outcome.kind = "error"
  /\ task.outcome.reason \in
       {MsgFfmpegFailedPrefix \o MsgUnknownError,
        MsgFfmpegNoFramePrefix \o FramePathText(task.metadata.video_id)}

\* C28: when a task has ended, with a result or with a failure of the frame
\* capture, the media it retrieved is deleted and its download directory
\* removed: no ended task has left media in its download directory.
C28_MediaRemovedAtEnd ==
  /\ (TaskGaveResult \/ CaptureFailed) => task.download_dir = "removed"
  /\ TaskEnded => task.download_dir # "media"

\* the part of C28 the code keeps: a task that gave a result removed its
\* media, and a task that failed before the capture had retrieved none
C28_MediaRemovedWithResult ==
  /\ TaskGaveResult => task.download_dir = "removed"
  /\ (TaskEnded /\ ~TaskGaveResult /\ ~CaptureFailed) => task.download_dir = "empty"

\* the call of extract_first_frame as a whole gives what its steps gave
StepsAgreeWithCall ==
  TaskEnded =>
     LET id == task.metadata.video_id
         last == task.calls[Len(task.calls)].answer
         ffmpeg == IF ~CaptureFailed THEN "ok"
                   ELSE IF task.outcome.reason # MsgFfmpegFailedPrefix \o MsgUnknownError
                   THEN "no_output"
                   ELSE IF frame_dir[id] = "partial" THEN "fail_partial" ELSE "fail"
         out == extract_first_frame(task.metadata, task.browser,
                                    [dl |-> <<task.calls[1].answer, last>>,
                                     ffmpeg |-> ffmpeg])
     IN /\ FutureOutcome(out) = task.outcome
        /\ out.calls = Len(task.calls)
        /\ out.frame = frame_dir[id]
        /\ out.media_left = (task.download_dir = "media")

(***************************************************************************)
(* C29: the tasks of a run write to paths of their own.                    *)
(***************************************************************************)
\* C29: the tasks a run submits have pairwise distinct video ids, so no two
\* tasks that run at the same time have the same frame path or the same
\* download directory.
C29_TasksHaveDistinctIds ==
  pc = "pool" =>
     /\ \A i, j \in 1..Len(futures) : i # j => TaskKey(i) # TaskKey(j)
     /\ \A i, j \in Running : i # j => TaskKey(i) # TaskKey(j)

\* the part of C29 the code keeps: the frame path and the download directory
\* of a task are functions of its video id alone, so tasks of distinct ids
\* write to distinct paths; and no task is submitted for an id whose frame
\* was reused
C29_NoTaskForReusedId ==
  pc = "pool" => \A i \in 1..Len(futures) : TaskKey(i) \notin reused

====
